---- MODULE Spec2Model ----
(***************************************************************************)
(* Model of the task-manager backend's database helpers and handlers:      *)
(*   - AdjustOrderingIDsForCollection (backend/database)                   *)
(*   - API.ReOrderTask (backend/api/task_modify.go)                        *)
(*   - GetOrCreateWithCollection, FindOneAndUpdateWithCollection           *)
(*   - GetSharedTask, GetSharedNote, GetSharedNoteWithAuth, TaskModify     *)
(*   - CreateStateToken, DeleteStateToken                                  *)
(*   - UpdateUserSetting                                                   *)
(* Each subsystem has its own next-state relation and specification over   *)
(* the one initial state in which every collection is empty.               *)
(* Collections are sequences of documents; a document's _id is its index   *)
(* (ObjectIDs are handed out in increasing order); state tokens, the one   *)
(* collection that is deleted from, are a set of documents.                *)
(***************************************************************************)
EXTENDS Integers, Sequences, FiniteSets, TLC

VARIABLES
    items,      \* a reorderable collection (views, sections): Seq of [user_id, id_ordering]
    adjCall,    \* outcome of the last AdjustOrderingIDsForCollection call
    tasks,      \* the task collection: Seq of task documents
    reorderCall, \* the last ReOrderTask call: arguments, collection before, after the shift, status
    docs,       \* a collection of external items (tasks, notes, events, pull requests, accounts)
    upsertCall, \* the last GetOrCreate / FindOneAndUpdate call: query, collection before, result
    notes,      \* the notes collection; _id is the index
    now,        \* the wall clock read by time.Now()
    shareResp,  \* the shared-item lookup just made: arguments and result
    stateTokens,   \* the state_tokens collection: a set of documents
    tokensCreated, \* how many state tokens were inserted; the next _id is one more
    deletions,     \* per state token, how many DeleteStateToken calls returned nil
    callbacks,     \* per OAuth callback in flight: position, presented token and user, result
    settings,   \* the user settings collection; _id is the index
    settingCall, \* the last UpdateUserSetting call: arguments and the collection before
    internalTokens, \* the internal_api_tokens collection: a set of documents
    tokensIssued, \* how many internal tokens were issued
    loggedOut, \* the tokens a successful logout presented
    authResp, \* the request to an authenticated endpoint just answered: header and status
    calEvents, \* the cached calendar events: a set of documents
    eventsInserted, \* how many calendar event documents were inserted
    eventCall, \* the last events list request: arguments, outcome of the fetch, cache before
    externalTokens, \* the external API tokens (linked accounts): a set of documents
    repositories, \* the cached repositories: a set of documents
    linkedInserted, \* how many token and repository documents were inserted
    unlinkCall, \* the last delete request of a linked account: arguments, status, collections before
    prDocs, \* the user's cached pull requests, by external ID
    prCached, \* the cached pull requests as GetPullRequests found them
    prClock, \* time.Now()
    prMain, \* GetPullRequests: position and local variables
    prStarters, \* getGithubUser, getUserTeams, getGithubRepositories: position and result
    prRepoProcs, \* processRepository per repository: position and local variables
    prInfoProcs, \* getPullRequestInfo per pull request: position, request time, what it did, its result
    prResults, \* what was sent on the result channel, in order
    prUpserted, \* the pull requests UpdateOrCreatePullRequest was called for
    prPanicked, \* the program panicked
    listItems, \* one user's collection of ordered documents, shared by two calls
    listCalls, \* the two concurrent AdjustOrderingIDsForCollection calls: position and local variables
    actionCall, \* the last getPullRequestRequiredAction call: its data and the action returned
    reviewCall, \* the last reviewersHaveRequestedChanges call: the reviews and the result
    taskCollection, \* the task collection TaskModify and TaskAddComment work on
    responses, \* status codes written while the last request was served
    modifyCall, \* the last TaskModify request and the collection it found
    updateCall, \* the last two calls of UpdateTaskInDBWithError
    updateCount, \* calls of UpdateTaskInDBWithError made so far
    commentProcs, \* TaskAddComment requests in progress
    commentsInserted \* the comments the task was inserted with

varsAdjust == <<items, adjCall>>
varsReorder == <<tasks, reorderCall>>
varsUpsert == <<docs, upsertCall>>
varsShare == <<notes, now, shareResp>>
varsToken == <<stateTokens, tokensCreated, deletions, callbacks>>
varsSettings == <<settings, settingCall>>
varsAuth == <<internalTokens, tokensIssued, loggedOut, authResp>>
varsEvents == <<calEvents, eventsInserted, eventCall>>
varsLinked == <<externalTokens, repositories, linkedInserted, unlinkCall>>
varsPullRequests == <<prDocs, prCached, prClock, prMain, prStarters, prRepoProcs, prInfoProcs, prResults, prUpserted, prPanicked>>
varsList == <<listItems, listCalls>>
varsAction == <<actionCall>>
varsReview == <<reviewCall>>
varsModify == <<taskCollection, responses, modifyCall>>
varsRoundTrip == <<updateCall, updateCount>>
varsComment == <<commentProcs, commentsInserted>>
vars == <<items, adjCall, tasks, reorderCall, docs, upsertCall, notes, now, shareResp, stateTokens, tokensCreated, deletions, callbacks, settings, settingCall, internalTokens, tokensIssued, loggedOut, authResp, calEvents, eventsInserted, eventCall, externalTokens, repositories, linkedInserted, unlinkCall, prDocs, prCached, prClock, prMain, prStarters, prRepoProcs, prInfoProcs, prResults, prUpserted, prPanicked, listItems, listCalls, actionCall, reviewCall, taskCollection, responses, modifyCall, updateCall, updateCount, commentProcs, commentsInserted>>

othersAdjust == <<varsReorder, varsUpsert, varsShare, varsToken, varsSettings, varsAuth, varsEvents, varsLinked, varsPullRequests, varsList, varsAction, varsReview, varsModify, varsRoundTrip, varsComment>>
othersReorder == <<varsAdjust, varsUpsert, varsShare, varsToken, varsSettings, varsAuth, varsEvents, varsLinked, varsPullRequests, varsList, varsAction, varsReview, varsModify, varsRoundTrip, varsComment>>
othersUpsert == <<varsAdjust, varsReorder, varsShare, varsToken, varsSettings, varsAuth, varsEvents, varsLinked, varsPullRequests, varsList, varsAction, varsReview, varsModify, varsRoundTrip, varsComment>>
othersShareTask == <<varsAdjust, reorderCall, varsUpsert, notes, varsToken, varsSettings, varsAuth, varsEvents, varsLinked, varsPullRequests, varsList, varsAction, varsReview, varsModify, varsRoundTrip, varsComment>>
othersShareNote == <<varsAdjust, varsReorder, varsUpsert, varsToken, varsSettings, varsAuth, varsEvents, varsLinked, varsPullRequests, varsList, varsAction, varsReview, varsModify, varsRoundTrip, varsComment>>
othersToken == <<varsAdjust, varsReorder, varsUpsert, varsShare, varsSettings, varsAuth, varsEvents, varsLinked, varsPullRequests, varsList, varsAction, varsReview, varsModify, varsRoundTrip, varsComment>>
othersSettings == <<varsAdjust, varsReorder, varsUpsert, varsShare, varsToken, varsAuth, varsEvents, varsLinked, varsPullRequests, varsList, varsAction, varsReview, varsModify, varsRoundTrip, varsComment>>
othersAuth == <<varsAdjust, varsReorder, varsUpsert, varsShare, varsToken, varsSettings, varsEvents, varsLinked, varsPullRequests, varsList, varsAction, varsReview, varsModify, varsRoundTrip, varsComment>>
othersEvents == <<varsAdjust, varsReorder, varsUpsert, varsShare, varsToken, varsSettings, varsAuth, varsLinked, varsPullRequests, varsList, varsAction, varsReview, varsModify, varsRoundTrip, varsComment>>
othersLinked == <<varsAdjust, varsReorder, varsUpsert, varsShare, varsToken, varsSettings, varsAuth, varsEvents, varsPullRequests, varsList, varsAction, varsReview, varsModify, varsRoundTrip, varsComment>>
othersPullRequests == <<varsAdjust, varsReorder, varsUpsert, varsShare, varsToken, varsSettings, varsAuth, varsEvents, varsLinked, varsList, varsAction, varsReview, varsModify, varsRoundTrip, varsComment>>
othersList == <<varsAdjust, varsReorder, varsUpsert, varsShare, varsToken, varsSettings, varsAuth, varsEvents, varsLinked, varsPullRequests, varsAction, varsReview, varsModify, varsRoundTrip, varsComment>>
othersAction == <<varsAdjust, varsReorder, varsUpsert, varsShare, varsToken, varsSettings, varsAuth, varsEvents, varsLinked, varsPullRequests, varsList, varsReview, varsModify, varsRoundTrip, varsComment>>
othersReview == <<varsAdjust, varsReorder, varsUpsert, varsShare, varsToken, varsSettings, varsAuth, varsEvents, varsLinked, varsPullRequests, varsList, varsAction, varsModify, varsRoundTrip, varsComment>>
othersModify == <<varsAdjust, varsReorder, varsUpsert, varsShare, varsToken, varsSettings, varsAuth, varsEvents, varsLinked, varsPullRequests, varsList, varsAction, varsReview, varsRoundTrip, varsComment>>
othersRoundTrip == <<varsAdjust, varsReorder, varsUpsert, varsShare, varsToken, varsSettings, varsAuth, varsEvents, varsLinked, varsPullRequests, varsList, varsAction, varsReview, varsModify, varsComment>>
othersTaskUpdate == <<varsAdjust, varsReorder, varsUpsert, varsShare, varsToken, varsSettings, varsAuth, varsEvents, varsLinked, varsPullRequests, varsList, varsAction, varsReview, varsComment>>
othersComment == <<varsAdjust, varsReorder, varsUpsert, varsShare, varsToken, varsSettings, varsAuth, varsEvents, varsLinked, varsPullRequests, varsList, varsAction, varsReview, varsModify, varsRoundTrip>>
othersTaskComment == <<varsAdjust, varsReorder, varsUpsert, varsShare, varsToken, varsSettings, varsAuth, varsEvents, varsLinked, varsPullRequests, varsList, varsAction, varsReview, varsRoundTrip>>

(* primitive.NilObjectID / a nil pointer *)
Nil == 0
NoCall == [op |-> "none"]

UserIDs == {"u1", "u2"}

(* ---- bounds ---- *)
MaxItems == 3       \* documents in the reorderable collection
MaxOrdering == 3    \* largest id_ordering a document of the reorderable collection is inserted with
MaxTasks == 3       \* documents in the task collection
MaxTaskOrdering == 2 \* largest id_ordering a task is inserted with
MaxDocs == 2        \* documents in the collection of external items
MaxSharedTasks == 1 \* tasks in the collection while sharing is exercised
MaxNotes == 1       \* notes in the collection
MaxTime == 2        \* the clock runs from 1 to MaxTime
MaxTokens == 2      \* state tokens ever created
MaxLogins == 2      \* internal tokens ever issued
MaxCalEvents == 2   \* calendar events inserted before the list request
MaxLinkedDocs == 3   \* external tokens and repositories inserted before the delete request
MaxListItems == 3   \* documents of the list two calls reorder concurrently
MaxRequestedReviewers == 1   \* requested reviewers of a pull request
MaxReviews == 3   \* reviews of a pull request
MaxModifyTasks == 2   \* documents in the task collection before a TaskModify request
MaxStatusTasks == 1   \* tasks in the collection while completion is switched back and forth
MaxUpdateCalls == 3   \* calls of UpdateTaskInDBWithError in a row
MaxComments == 2   \* comments stored on the task before the requests

SectionIDs == {"s1", "s2"}

(* pointer-typed fields (pointers to bool, int, string): the empty set is nil *)
NilPtr == {}
Ptr(x) == {x}

(***************************************************************************)
(* AdjustOrderingIDsForCollection                                          *)
(***************************************************************************)
ItemIDs(its) == 1..Len(its)

UserItemIDs(its, userID) == {i \in ItemIDs(its) : its[i].user_id = userID}

(* UpdateMany {_id != itemID, user_id, id_ordering >= orderingID} $inc 1 *)
ShiftOrderingIDs(its, userID, itemID, orderingID) ==
    [i \in ItemIDs(its) |->
        IF i # itemID /\ its[i].user_id = userID /\ its[i].id_ordering >= orderingID
        THEN [its[i] EXCEPT !.id_ordering = @ + 1]
        ELSE its[i]]

(* Find(...).SetSort(id_ordering: 1): every listing of ids in nondecreasing *)
(* id_ordering; the order among equal keys is not fixed by the sort.        *)
SortedByOrdering(its, ids) ==
    {p \in [1..Cardinality(ids) -> ids] :
        \A a, b \in 1..Cardinality(ids) :
            a < b => /\ p[a] # p[b]
                     /\ its[p[a]].id_ordering <= its[p[b]].id_ordering}

(* variant: the loop index itself is stored *)
NewIDOrderingFromZero(index) == index

(* newIDOrdering := index + 1 (index is the zero-based loop index) *)
NewIDOrdering(index) == index + 1

(* the loop over the sorted items, run for the first `upto` positions *)
NormalizeOrderingIDs(its, userID, sorted, upto) ==
    [i \in ItemIDs(its) |->
        IF /\ \E pos \in 1..upto : sorted[pos] = i
           /\ its[i].user_id = userID
        THEN LET pos == CHOOSE q \in 1..upto : sorted[q] = i
             IN  [its[i] EXCEPT !.id_ordering = NewIDOrdering(pos - 1)]
        ELSE its[i]]

(* the id_ordering values of a user's documents are exactly 1..n, each once *)
IsDense(its, userID) ==
    LET ids == UserItemIDs(its, userID)
    IN  /\ \A i \in ids : its[i].id_ordering \in 1..Cardinality(ids)
        /\ \A i, j \in ids : i # j => its[i].id_ordering # its[j].id_ordering

AdjResult(userID, err) ==
    [op |-> "adjust", user_id |-> userID, err |-> err, wasDense |-> IsDense(items, userID),
     size |-> Cardinality(UserItemIDs(items, userID))]

(* a document created elsewhere (InsertOne) with an arbitrary id_ordering *)
InsertItem(userID, ord) ==
    /\ Len(items) < MaxItems
    /\ adjCall = NoCall
    /\ items' = Append(items, [user_id |-> userID, id_ordering |-> ord])
    /\ adjCall' = NoCall
    /\ UNCHANGED othersAdjust

AdjustOrderingIDsForCollection(userID, itemID, orderingID) ==
    LET shifted == ShiftOrderingIDs(items, userID, itemID, orderingID)
        ids == UserItemIDs(shifted, userID)
        n == Cardinality(ids)
    IN  /\ adjCall = NoCall
        /\ \/ \* UpdateMany returns an error
              /\ items' = items
              /\ adjCall' = AdjResult(userID, TRUE)
           \/ \* Find / cursor.All returns an error
              /\ items' = shifted
              /\ adjCall' = AdjResult(userID, TRUE)
           \/ \E sorted \in SortedByOrdering(shifted, ids) :
                \/ /\ items' = NormalizeOrderingIDs(shifted, userID, sorted, n)
                   /\ adjCall' = AdjResult(userID, FALSE)
                \/ \* the UpdateOne at position f returns an error
                   \E f \in 1..n :
                      /\ shifted[sorted[f]].id_ordering # NewIDOrdering(f - 1)
                      /\ items' = NormalizeOrderingIDs(shifted, userID, sorted, f - 1)
                      /\ adjCall' = AdjResult(userID, TRUE)
        /\ \A i \in ItemIDs(items') : items'[i].id_ordering <= MaxOrdering + 1
        /\ UNCHANGED othersAdjust

(***************************************************************************)
(* API.ReOrderTask                                                         *)
(***************************************************************************)
ValueOf(ptr) == CHOOSE x \in ptr : TRUE

TaskIDs(ts) == 1..Len(ts)

NewTask(userID, ord, section, isDeleted, isCompleted, parent) ==
    [user_id |-> userID, id_ordering |-> ord, id_task_section |-> section,
     is_deleted |-> isDeleted, is_completed |-> isCompleted,
     parent_task_id |-> parent, has_been_reordered |-> FALSE,
     shared_until |-> 0, shared_access |-> NilPtr]

(* a task document created elsewhere (task creation, external fetch) *)
InsertTask(task) ==
    /\ Len(tasks) < MaxTasks
    /\ reorderCall = NoCall
    /\ tasks' = Append(tasks, task)
    /\ reorderCall' = NoCall
    /\ UNCHANGED othersReorder

(* result.MatchedCount of UpdateOne {_id: taskID, user_id: userID} *)
MatchedCount(ts, taskID, userID) ==
    Cardinality({t \in TaskIDs(ts) : t = taskID /\ ts[t].user_id = userID})

(* variant: the requested id_task_section is not part of updateFields *)
SetReorderFieldsOrderingOnly(ts, taskID, userID, IDOrdering, IDTaskSectionHex) ==
    [t \in TaskIDs(ts) |->
        IF t = taskID /\ ts[t].user_id = userID
        THEN [ts[t] EXCEPT
                !.has_been_reordered = TRUE,
                !.id_ordering = IF IDOrdering # NilPtr THEN ValueOf(IDOrdering) ELSE @]
        ELSE ts[t]]

(* UpdateOne {_id: taskID, user_id: userID} $set updateFields, where       *)
(* updateFields = has_been_reordered, and id_ordering / id_task_section    *)
(* when the request carries them                                           *)
SetReorderFields(ts, taskID, userID, IDOrdering, IDTaskSectionHex) ==
    [t \in TaskIDs(ts) |->
        IF t = taskID /\ ts[t].user_id = userID
        THEN [ts[t] EXCEPT
                !.has_been_reordered = TRUE,
                !.id_ordering = IF IDOrdering # NilPtr THEN ValueOf(IDOrdering) ELSE @,
                !.id_task_section =
                    IF IDTaskSectionHex # NilPtr THEN ValueOf(IDTaskSectionHex) ELSE @]
        ELSE ts[t]]

(* IDTaskSection: the requested section, else the section of the task as fetched *)
TargetSection(task, IDTaskSectionHex) ==
    IF IDTaskSectionHex # NilPtr THEN ValueOf(IDTaskSectionHex) ELSE task.id_task_section

(* taskQuery: the list the moved task belongs to *)
TaskQuery(doc, userID, task, IDTaskSection) ==
    /\ doc.user_id = userID
    /\ doc.is_deleted # Ptr(TRUE)
    /\ IF task.parent_task_id # Nil
       THEN doc.parent_task_id = task.parent_task_id
       ELSE /\ doc.id_task_section = IDTaskSection
            /\ doc.is_completed # Ptr(TRUE)

(* variant: id_ordering compared with $gt instead of $gte *)
MoveBackQueryStrict(ts, t, taskID, userID, orderingID, task, IDTaskSection) ==
    /\ t # taskID
    /\ ts[t].is_deleted # Ptr(TRUE)
    /\ ts[t].id_ordering > orderingID
    /\ ts[t].user_id = userID
    /\ IF task.parent_task_id # Nil
       THEN ts[t].parent_task_id = task.parent_task_id
       ELSE /\ ts[t].id_task_section = IDTaskSection
            /\ ts[t].is_completed # Ptr(TRUE)

(* dbQuery: the tasks to move back *)
MoveBackQuery(ts, t, taskID, userID, orderingID, task, IDTaskSection) ==
    /\ t # taskID
    /\ ts[t].is_deleted # Ptr(TRUE)
    /\ ts[t].id_ordering >= orderingID
    /\ ts[t].user_id = userID
    /\ IF task.parent_task_id # Nil
       THEN ts[t].parent_task_id = task.parent_task_id
       ELSE /\ ts[t].id_task_section = IDTaskSection
            /\ ts[t].is_completed # Ptr(TRUE)

(* UpdateMany dbQuery $inc id_ordering 1 *)
MoveBackOtherTasks(ts, taskID, userID, orderingID, task, IDTaskSection) ==
    [t \in TaskIDs(ts) |->
        IF MoveBackQuery(ts, t, taskID, userID, orderingID, task, IDTaskSection)
        THEN [ts[t] EXCEPT !.id_ordering = @ + 1]
        ELSE ts[t]]

(* getTaskResultsFromQuery: ids matching taskQuery; sorted by SortedByOrdering *)
TaskResultIDs(ts, userID, task, IDTaskSection) ==
    {t \in TaskIDs(ts) : TaskQuery(ts[t], userID, task, IDTaskSection)}

(* updateOrderingIDsV2: number the fetched list 1..n in its order *)
UpdateOrderingIDsV2(ts, sorted) ==
    [t \in TaskIDs(ts) |->
        IF \E pos \in DOMAIN sorted : sorted[pos] = t
        THEN [ts[t] EXCEPT !.id_ordering = CHOOSE pos \in DOMAIN sorted : sorted[pos] = t]
        ELSE ts[t]]

ReorderResult(taskID, userID, IDOrdering, IDTaskSectionHex, status, mid) ==
    [op |-> "reorder", task_id |-> taskID, user_id |-> userID,
     id_ordering |-> IDOrdering, id_task_section |-> IDTaskSectionHex,
     status |-> status, pre |-> tasks, mid |-> mid]

(* `task` is the document the caller fetched before calling *)
ReOrderTask(taskID, userID, IDOrdering, IDTaskSectionHex) ==
    LET task == tasks[taskID]
        IDTaskSection == TargetSection(task, IDTaskSectionHex)
        updated == SetReorderFields(tasks, taskID, userID, IDOrdering, IDTaskSectionHex)
    IN  /\ reorderCall = NoCall
        /\ taskID \in TaskIDs(tasks)
        /\ IF MatchedCount(tasks, taskID, userID) # 1
           THEN \* Handle404
                /\ tasks' = tasks
                /\ reorderCall' = ReorderResult(taskID, userID, IDOrdering,
                                                IDTaskSectionHex, 404, tasks)
           ELSE IF IDOrdering = NilPtr
           THEN /\ tasks' = updated
                /\ reorderCall' = ReorderResult(taskID, userID, IDOrdering,
                                                IDTaskSectionHex, 200, updated)
           ELSE LET shifted == MoveBackOtherTasks(updated, taskID, userID,
                                   ValueOf(IDOrdering), task, IDTaskSection)
                    ids == TaskResultIDs(shifted, userID, task, IDTaskSection)
                IN  \E sorted \in SortedByOrdering(shifted, ids) :
                       /\ tasks' = UpdateOrderingIDsV2(shifted, sorted)
                       /\ reorderCall' = ReorderResult(taskID, userID, IDOrdering,
                                                       IDTaskSectionHex, 200, shifted)
        /\ UNCHANGED othersReorder

(***************************************************************************)
(* GetOrCreateWithCollection, FindOneAndUpdateWithCollection, getDBQuery   *)
(* A document is a record over DocFields; a field that is not stored is    *)
(* Absent. A struct handed to $set / $setOnInsert is a record over the     *)
(* fields it carries. An upsert that matches nothing inserts the document  *)
(* built from the equality clauses of the query with the update applied on *)
(* top (linked_accounts_test.go:202-239 asserts that the id_external of    *)
(* the update wins over the id_external of the query).                     *)
(***************************************************************************)
DocFields == {"user_id", "id_external", "source_id", "source_account_id", "value"}
Absent == "absent"
NoFilters == [f \in {} |-> Absent]

getDBQuery(userID, IDExternal, sourceID, additionalFilters) ==
    [f \in {"id_external", "source_id", "user_id"} \cup DOMAIN additionalFilters |->
        IF f = "id_external" THEN IDExternal
        ELSE IF f = "source_id" THEN sourceID
        ELSE IF f = "user_id" THEN userID
        ELSE additionalFilters[f]]

Matches(doc, query) == \A f \in DOMAIN query : doc[f] = query[f]

MatchingIDs(ds, query) == {i \in 1..Len(ds) : Matches(ds[i], query)}

(* the document an upsert starts from: the equality clauses of the query *)
UpsertBase(query) == [f \in DocFields |-> IF f \in DOMAIN query THEN query[f] ELSE Absent]

(* $set / $setOnInsert of the fields a struct carries *)
ApplyUpdate(doc, fields) ==
    [f \in DocFields |-> IF f \in DOMAIN fields THEN fields[f] ELSE doc[f]]

(* UpdateOne(dbQuery, {$setOnInsert: fields}, upsert) *)
UpsertSetOnInsert(ds, query, fields) ==
    IF MatchingIDs(ds, query) # {}
    THEN ds
    ELSE Append(ds, ApplyUpdate(UpsertBase(query), fields))

(* FindOneAndUpdate(dbQuery, {$set: fields}, upsert, ReturnDocument After) *)
(* target: the matched document, Nil when nothing matches                  *)
UpsertSet(ds, query, fields, target) ==
    IF target = Nil
    THEN Append(ds, ApplyUpdate(UpsertBase(query), fields))
    ELSE [ds EXCEPT ![target] = ApplyUpdate(@, fields)]

(* the document a find on the query yields: any match, Nil when none *)
FindTargets(ds, query) ==
    IF MatchingIDs(ds, query) = {} THEN {Nil} ELSE MatchingIDs(ds, query)

GetOrCreateWithCollection(userID, IDExternal, sourceID, fieldsToInsertIfMissing) ==
    LET dbQuery == getDBQuery(userID, IDExternal, sourceID, NoFilters)
        after == UpsertSetOnInsert(docs, dbQuery, fieldsToInsertIfMissing)
    IN  /\ Len(after) <= MaxDocs
        /\ docs' = after
        /\ \E found \in FindTargets(after, dbQuery) :
              upsertCall' = [op |-> "getOrCreate", query |-> dbQuery, pre |-> docs,
                             fields |-> fieldsToInsertIfMissing, returned |-> found]
        /\ UNCHANGED othersUpsert

FindOneAndUpdateWithCollection(userID, IDExternal, sourceID, fieldsToInsertIfMissing, fields, additionalFilters) ==
    LET dbQuery == getDBQuery(userID, IDExternal, sourceID, additionalFilters)
        inserted == IF fieldsToInsertIfMissing # NilPtr
                    THEN UpsertSetOnInsert(docs, dbQuery, ValueOf(fieldsToInsertIfMissing))
                    ELSE docs
    IN  \E target \in FindTargets(inserted, dbQuery) :
           LET after == UpsertSet(inserted, dbQuery, fields, target)
           IN  /\ Len(after) <= MaxDocs
               /\ docs' = after
               /\ upsertCall' = [op |-> "findOneAndUpdate", query |-> dbQuery, pre |-> docs,
                                 fields |-> fields,
                                 returned |-> IF target = Nil THEN Len(after) ELSE target]
               /\ UNCHANGED othersUpsert

(***************************************************************************)
(* Shared tasks: GetEmailDomain, GetUser, GetSharedTask and the part of    *)
(* TaskModify that shares, unshares and deletes a task.                    *)
(* An email is held as strings.Split(email, "@") yields it; the users      *)
(* collection is not written by any operation modelled here. User emails   *)
(* carry at most one "@" (GetEmailDomain documents that it relies on it).  *)
(***************************************************************************)
Users ==
    [u \in {"u1", "u2", "u3", "u4", "u5"} |->
        CASE u = "u1" -> <<"a", "x.com">>
          [] u = "u2" -> <<"b", "x.com">>
          [] u = "u3" -> <<"c", "y.com">>
          [] u = "u4" -> <<"d">>
          [] u = "u5" -> <<"e", "">>]

MissingUser == "u9"

SharedAccessDomain == "domain"
SharedAccessPublic == "public"
SharedAccessMeetingAttendees == "meeting_attendees"
InvalidSharedAccess == "other"

Ok(value) == [ok |-> TRUE, value |-> value, err |-> ""]
Err(msg) == [ok |-> FALSE, value |-> Nil, err |-> msg]

GetEmailDomain(email) ==
    IF Len(email) < 2 THEN Err("invalid email address")
    ELSE IF email[2] = "" THEN Err("invalid email address")
    ELSE Ok(email[2])

GetUser(userID) ==
    IF userID \in DOMAIN Users THEN Ok(Users[userID]) ELSE Err("no documents in result")

(* {_id, shared_until >= time.Now(), is_deleted != true} *)
SharedTaskFilterNoExpiry(task, time) == task.is_deleted # Ptr(TRUE)
SharedTaskFilter(task, time) ==
    /\ task.shared_until >= time
    /\ task.is_deleted # Ptr(TRUE)

(* the checks that follow the lookup of a domain-shared item *)
CheckSameDomainNoCompare(userID, ownerID) ==
    LET user == GetUser(userID)
        owner == GetUser(ownerID)
    IN  IF ~user.ok THEN user
        ELSE IF ~owner.ok THEN owner
        ELSE IF ~GetEmailDomain(user.value).ok THEN GetEmailDomain(user.value)
        ELSE IF ~GetEmailDomain(owner.value).ok THEN GetEmailDomain(owner.value)
        ELSE Ok("same domain")
CheckSameDomain(userID, ownerID) ==
    LET user == GetUser(userID)
        owner == GetUser(ownerID)
    IN  IF ~user.ok THEN user
        ELSE IF ~owner.ok THEN owner
        ELSE IF ~GetEmailDomain(user.value).ok THEN GetEmailDomain(user.value)
        ELSE IF ~GetEmailDomain(owner.value).ok THEN GetEmailDomain(owner.value)
        ELSE IF GetEmailDomain(user.value).value # GetEmailDomain(owner.value).value
             THEN Err("user domain does not match task owner domain")
        ELSE Ok("same domain")

(* userID is a pointer: NilPtr for a request without a logged-in user *)
GetSharedTaskResult(ts, time, taskID, userID) ==
    IF taskID \notin TaskIDs(ts) \/ ~SharedTaskFilter(ts[taskID], time)
    THEN Err("no documents in result")
    ELSE LET task == ts[taskID]
         IN  IF task.shared_access = NilPtr THEN Err("task is not shared")
             ELSE IF ValueOf(task.shared_access) \notin {SharedAccessDomain, SharedAccessPublic}
                  THEN Err("invalid shared access value")
             ELSE IF ValueOf(task.shared_access) = SharedAccessDomain
                  THEN IF userID = NilPtr
                       THEN Err("user is not allowed to access this task")
                       ELSE IF ~CheckSameDomain(ValueOf(userID), task.user_id).ok
                            THEN CheckSameDomain(ValueOf(userID), task.user_id)
                            ELSE Ok(taskID)
             ELSE Ok(taskID)

GetSharedTask(taskID, userID) ==
    /\ shareResp' = [op |-> "GetSharedTask", id |-> taskID, user_id |-> userID,
                     result |-> GetSharedTaskResult(tasks, now, taskID, userID)]
    /\ UNCHANGED <<tasks, now, othersShareTask>>

(* time passes *)
Tick ==
    /\ now < MaxTime
    /\ now' = now + 1
    /\ shareResp' = NoCall
    /\ UNCHANGED <<tasks, notes, varsAdjust, reorderCall, varsUpsert, varsToken, varsSettings, varsAuth, varsEvents, varsLinked, varsPullRequests, varsList, varsAction, varsReview, varsModify, varsRoundTrip, varsComment>>

CreateTask(userID) ==
    /\ Len(tasks) < MaxSharedTasks
    /\ tasks' = Append(tasks, NewTask(userID, 1, "s1", NilPtr, NilPtr, Nil))
    /\ shareResp' = NoCall
    /\ UNCHANGED <<now, othersShareTask>>

(* $set of the update struct: nil pointers and a zero shared_until are omitted *)
SetTaskFields(task, IsDeleted, SharedAccess, SharedUntil) ==
    [task EXCEPT !.is_deleted = IF IsDeleted # NilPtr THEN IsDeleted ELSE @,
                 !.shared_access = IF SharedAccess # NilPtr THEN SharedAccess ELSE @,
                 !.shared_until = IF SharedUntil # 0 THEN SharedUntil ELSE @]

(* TaskModify for a request that carries only is_deleted, shared_access    *)
(* and shared_until, on a top-level General Task task: 404 when the task   *)
(* is not the user's, 400 for an empty request or an unknown shared access *)
TaskModify(taskID, userID, IsDeleted, SharedAccess, SharedUntil) ==
    /\ taskID \in TaskIDs(tasks)
    /\ tasks[taskID].parent_task_id = Nil
    /\ IF \/ tasks[taskID].user_id # userID
          \/ (IsDeleted = NilPtr /\ SharedAccess = NilPtr /\ SharedUntil = 0)
          \/ (SharedAccess # NilPtr
                /\ ValueOf(SharedAccess) \notin {SharedAccessPublic, SharedAccessDomain})
       THEN tasks' = tasks
       ELSE tasks' = [tasks EXCEPT ![taskID] =
                         SetTaskFields(@, IsDeleted, SharedAccess, SharedUntil)]
    /\ shareResp' = NoCall
    /\ UNCHANGED <<now, othersShareTask>>

(***************************************************************************)
(* Shared notes: GetSharedNote, GetSharedNoteWithAuth.                     *)
(* The calendar events collection is not written by any operation modelled *)
(* here: event 1 exists, with a user of another domain and a user with a   *)
(* malformed email as attendees; any other linked event id finds nothing.  *)
(***************************************************************************)
CalendarEvents == <<[attendee_emails |-> <<Users["u3"], Users["u4"]>>]>>

NoteIDs(ns) == 1..Len(ns)

NewNote(userID, sharedUntil, isDeleted, sharedAccess, linkedEventID) ==
    [user_id |-> userID, shared_until |-> sharedUntil, is_deleted |-> isDeleted,
     shared_access |-> sharedAccess, linked_event_id |-> linkedEventID]

(* {_id, shared_until >= time.Now(), is_deleted != true} *)
SharedNoteFilter(note, time) ==
    /\ note.shared_until >= time
    /\ note.is_deleted # Ptr(TRUE)

CheckNoteSharingAccessValid(sharedAccess) ==
    IF sharedAccess = NilPtr THEN TRUE
    ELSE ValueOf(sharedAccess) \in
            {SharedAccessMeetingAttendees, SharedAccessDomain, SharedAccessPublic}

(* the lookup without a user refuses every access but unset and public *)
NoteNeedsAuthDomainOnly(note) == note.shared_access = Ptr(SharedAccessDomain)
NoteNeedsAuth(note) ==
    note.shared_access # NilPtr /\ ValueOf(note.shared_access) # SharedAccessPublic

GetSharedNoteResult(ns, time, itemID) ==
    IF itemID \notin NoteIDs(ns) \/ ~SharedNoteFilter(ns[itemID], time)
    THEN Err("no documents in result")
    ELSE IF NoteNeedsAuth(ns[itemID]) THEN Err("unable to fetch note without auth")
    ELSE Ok(itemID)

(* for _, attendeeEmail := range event.AttendeeEmails *)
IsAttendeeOfAnyEvent(event, email) == Len(event.attendee_emails) > 0
IsAttendee(event, email) ==
    \E i \in 1..Len(event.attendee_emails) : event.attendee_emails[i] = email

GetSharedNoteWithAuthResult(ns, time, itemID, userID) ==
    IF itemID \notin NoteIDs(ns) \/ ~SharedNoteFilter(ns[itemID], time)
    THEN Err("no documents in result")
    ELSE LET note == ns[itemID]
         IN  IF ~(NoteNeedsAuth(note) /\ note.user_id # userID) THEN Ok(itemID)
             ELSE IF ~CheckNoteSharingAccessValid(note.shared_access)
                  THEN Err("invalid shared access value")
             ELSE IF ~GetUser(userID).ok THEN GetUser(userID)
             ELSE IF ValueOf(note.shared_access) = SharedAccessDomain
                  THEN IF ~CheckSameDomain(userID, note.user_id).ok
                       THEN CheckSameDomain(userID, note.user_id)
                       ELSE Ok(itemID)
             ELSE IF ValueOf(note.shared_access) = SharedAccessMeetingAttendees
                  THEN IF note.linked_event_id = Nil
                       THEN Err("linked event required for note's shared access type")
                       ELSE IF note.linked_event_id \notin DOMAIN CalendarEvents
                            THEN Err("no documents in result")
                       ELSE IF IsAttendee(CalendarEvents[note.linked_event_id],
                                          GetUser(userID).value)
                            THEN Ok(itemID)
                       ELSE Err("user not found in list of attendees")
             ELSE Ok(itemID)

GetSharedNote(itemID) ==
    /\ shareResp' = [op |-> "GetSharedNote", id |-> itemID, user_id |-> NilPtr,
                     result |-> GetSharedNoteResult(notes, now, itemID)]
    /\ UNCHANGED <<notes, now, othersShareNote>>

GetSharedNoteWithAuth(itemID, userID) ==
    /\ shareResp' = [op |-> "GetSharedNoteWithAuth", id |-> itemID, user_id |-> Ptr(userID),
                     result |-> GetSharedNoteWithAuthResult(notes, now, itemID, userID)]
    /\ UNCHANGED <<notes, now, othersShareNote>>

InsertNote(note) ==
    /\ Len(notes) < MaxNotes
    /\ notes' = Append(notes, note)
    /\ shareResp' = NoCall
    /\ UNCHANGED <<now, othersShareNote>>

(***************************************************************************)
(* State tokens: CreateStateToken, DeleteStateToken, and OAuth callbacks   *)
(* that present a token (and the logged-in user, for a link callback) and  *)
(* then call DeleteStateToken. A token created without a user stores the   *)
(* zero ObjectID. DeleteOne is one atomic step of the database.            *)
(***************************************************************************)
NilObjectID == "000000000000000000000000"

Callbacks == {"c1", "c2"}

IdleCallback == [pc |-> "idle", token |-> Nil, user_id |-> NilPtr, err |-> ""]

CreateStateToken(userID) ==
    /\ tokensCreated < MaxTokens
    /\ tokensCreated' = tokensCreated + 1
    /\ stateTokens' = stateTokens \cup
          {[id |-> tokensCreated + 1,
            user_id |-> IF userID # NilPtr THEN ValueOf(userID) ELSE NilObjectID]}
    /\ UNCHANGED <<deletions, callbacks, othersToken>>

(* {_id: stateTokenID}, or {user_id: *userID, _id: stateTokenID} *)
DeletionQueryAnyUser(token, stateTokenID, userID) == token.id = stateTokenID
DeletionQuery(token, stateTokenID, userID) ==
    /\ token.id = stateTokenID
    /\ userID # NilPtr => token.user_id = ValueOf(userID)

DeletedCount(ts, stateTokenID, userID) ==
    IF \E token \in ts : DeletionQuery(token, stateTokenID, userID) THEN 1 ELSE 0

DeleteNone(ts, stateTokenID, userID) == ts
DeleteOne(ts, stateTokenID, userID) ==
    IF DeletedCount(ts, stateTokenID, userID) = 0 THEN ts
    ELSE ts \ {CHOOSE token \in ts : DeletionQuery(token, stateTokenID, userID)}

(* a callback request arrives with a state token and, when linking, a user *)
ReceiveCallback(c, stateTokenID, userID) ==
    /\ callbacks[c].pc # "called"
    /\ callbacks' = [callbacks EXCEPT ![c] =
          [pc |-> "called", token |-> stateTokenID, user_id |-> userID, err |-> ""]]
    /\ UNCHANGED <<stateTokens, tokensCreated, deletions, othersToken>>

DeleteStateToken(c) ==
    LET stateTokenID == callbacks[c].token
        userID == callbacks[c].user_id
        count == DeletedCount(stateTokens, stateTokenID, userID)
    IN  /\ callbacks[c].pc = "called"
        /\ stateTokens' = DeleteOne(stateTokens, stateTokenID, userID)
        /\ callbacks' = [callbacks EXCEPT ![c].pc = "done",
                            ![c].err = IF count # 1 THEN "invalid state token" ELSE ""]
        /\ deletions' = IF count # 1 THEN deletions
                        ELSE [deletions EXCEPT ![stateTokenID] = @ + 1]
        /\ UNCHANGED <<tokensCreated, othersToken>>

(***************************************************************************)
(* User settings: UpdateUserSetting                                        *)
(***************************************************************************)
SettingMatchesUser(setting, userID, fieldKey) == setting.user_id = userID
SettingMatches(setting, userID, fieldKey) ==
    setting.user_id = userID /\ setting.field_key = fieldKey

MatchingSettings(ss, userID, fieldKey) ==
    {i \in 1..Len(ss) : SettingMatches(ss[i], userID, fieldKey)}

(* UpdateOne({user_id, field_key}, {$set: UserSetting{...}}, upsert): the  *)
(* first matching document is updated, one is inserted when none matches   *)
UpsertUserSetting(ss, userID, fieldKey, fieldValue) ==
    LET setting == [user_id |-> userID, field_key |-> fieldKey, field_value |-> fieldValue]
        m == MatchingSettings(ss, userID, fieldKey)
    IN  IF m = {} THEN Append(ss, setting)
        ELSE [ss EXCEPT ![CHOOSE i \in m : \A j \in m : i <= j] = setting]

UpdateUserSetting(userID, fieldKey, fieldValue) ==
    /\ settings' = UpsertUserSetting(settings, userID, fieldKey, fieldValue)
    /\ settingCall' = [op |-> "UpdateUserSetting", user_id |-> userID, field_key |-> fieldKey,
                       field_value |-> fieldValue, pre |-> settings]
    /\ UNCHANGED othersSettings

(***************************************************************************)
(* Authenticated endpoints: the token middleware and Logout. An            *)
(* Authorization header is held as the prefix before the token and the     *)
(* token; token Nil stands for a string that is no internal token          *)
(* ("hello"). Internal tokens are fresh UUIDs, so a token value is issued  *)
(* once.                                                                   *)
(***************************************************************************)
BearerPrefix == "Bearer "

HeaderPrefixes == {BearerPrefix, "", "Basic "}

StoredTokens(ts) == {t.token : t \in ts}

(* the token a header carries, when the header has the Bearer form *)
getTokenAnyPrefix(header) == Ok(header.token)
getToken(header) ==
    IF header.prefix = BearerPrefix
    THEN Ok(header.token)
    ELSE Err("incorrect auth token format")

(* 200 and the request goes on, or 401 *)
TokenMiddleware(ts, header) ==
    IF ~getToken(header).ok THEN 401
    ELSE IF getToken(header).value \notin StoredTokens(ts) THEN 401
    ELSE 200

Login(userID) ==
    /\ tokensIssued < MaxLogins
    /\ tokensIssued' = tokensIssued + 1
    /\ internalTokens' = internalTokens \cup {[token |-> tokensIssued + 1, user_id |-> userID]}
    /\ authResp' = NoCall
    /\ UNCHANGED <<loggedOut, othersAuth>>

PingAuthed(header) ==
    /\ authResp' = [op |-> "ping", header |-> header,
                    status |-> TokenMiddleware(internalTokens, header)]
    /\ UNCHANGED <<internalTokens, tokensIssued, loggedOut, othersAuth>>

Logout(header) ==
    /\ authResp' = [op |-> "logout", header |-> header,
                    status |-> TokenMiddleware(internalTokens, header)]
    /\ IF TokenMiddleware(internalTokens, header) = 200
       THEN /\ internalTokens' = {t \in internalTokens : t.token # header.token}
            /\ loggedOut' = loggedOut \cup {header.token}
       ELSE UNCHANGED <<internalTokens, loggedOut>>
    /\ UNCHANGED <<tokensIssued, othersAuth>>

(***************************************************************************)
(* The events list endpoint for one linked calendar account of the caller: *)
(* the external fetch either fails because no usable token can be loaded,  *)
(* or returns a set of events of the requested window, which are upserted  *)
(* by (user_id, id_external); afterwards the caller's cached events of the *)
(* fetched account inside the window that were not returned are deleted.   *)
(***************************************************************************)
WindowStart == 1
WindowEnd == 2

InWindow(event) == event.datetime_start >= WindowStart /\ event.datetime_end <= WindowEnd

NewCalendarEvent(id, userID, accountID, IDExternal, start, end) ==
    [id |-> id, user_id |-> userID, source_account_id |-> accountID,
     id_external |-> IDExternal, datetime_start |-> start, datetime_end |-> end]

InsertCalendarEvent(userID, accountID, IDExternal, start, end) ==
    /\ eventsInserted < MaxCalEvents
    /\ eventsInserted' = eventsInserted + 1
    /\ calEvents' = calEvents \cup
          {NewCalendarEvent(eventsInserted + 1, userID, accountID, IDExternal, start, end)}
    /\ eventCall' = NoCall
    /\ UNCHANGED othersEvents

(* the cached events a successful fetch of fetched for accountID removes *)
StaleEventsAnyAccount(es, userID, accountID, fetched) ==
    {e \in es : e.user_id = userID /\ InWindow(e) /\ e.id_external \notin fetched}
StaleEvents(es, userID, accountID, fetched) ==
    {e \in es : /\ e.user_id = userID
                /\ e.source_account_id = accountID
                /\ InWindow(e)
                /\ e.id_external \notin fetched}

(* the fetched events written to the cache: known ones updated in place *)
UpsertFetchedEvents(es, userID, accountID, fetched) ==
    {IF e.user_id = userID /\ e.id_external \in fetched
     THEN NewCalendarEvent(e.id, userID, accountID, e.id_external, WindowStart, WindowEnd)
     ELSE e : e \in es}

(* ids for the fetched events that have no cached document *)
NewEventIDs(es, userID, fetched, next) ==
    LET missing == {x \in fetched : ~\E e \in es : e.user_id = userID /\ e.id_external = x}
    IN  IF missing = {} THEN {}
        ELSE {f \in [missing -> next + 1..next + Cardinality(missing)] :
                 \A x, y \in missing : x # y => f[x] # f[y]}

EventsList(userID, accountID, tokenLoaded, fetched) ==
    /\ eventCall' = [op |-> "EventsList", user_id |-> userID, account_id |-> accountID,
                     token_loaded |-> tokenLoaded, fetched |-> fetched, pre |-> calEvents,
                     status |-> 200,
                     result |-> IF tokenLoaded THEN fetched ELSE {}]
    /\ IF ~tokenLoaded
       THEN UNCHANGED <<calEvents, eventsInserted>>
       ELSE LET upserted == UpsertFetchedEvents(calEvents, userID, accountID, fetched)
                ids == NewEventIDs(calEvents, userID, fetched, eventsInserted)
            IN  /\ eventsInserted' = eventsInserted
                     + Cardinality({x \in fetched : ~\E e \in calEvents :
                                       e.user_id = userID /\ e.id_external = x})
                /\ IF ids = {}
                   THEN calEvents' = upserted \ StaleEvents(upserted, userID, accountID, fetched)
                   ELSE \E f \in ids :
                          calEvents' =
                             (upserted \cup {NewCalendarEvent(f[x], userID, accountID, x,
                                                 WindowStart, WindowEnd) : x \in DOMAIN f})
                             \ StaleEvents(upserted, userID, accountID, fetched)
    /\ UNCHANGED othersEvents

(***************************************************************************)
(* Deleting a linked account: the external API token named by the path is  *)
(* looked up among the caller's tokens, must be unlinkable, and is deleted;*)
(* unlinking a GitHub account also deletes the caller's cached             *)
(* repositories of that account and those without an account ID.           *)
(***************************************************************************)
ServiceGithub == "github"
ServiceLinear == "linear"
ServiceGoogle == "google"
NoAccountID == ""

InsertExternalToken(userID, accountID, serviceID, isUnlinkable) ==
    /\ linkedInserted < MaxLinkedDocs
    /\ linkedInserted' = linkedInserted + 1
    /\ externalTokens' = externalTokens \cup
          {[id |-> linkedInserted + 1, user_id |-> userID, account_id |-> accountID,
            service_id |-> serviceID, is_unlinkable |-> isUnlinkable]}
    /\ unlinkCall' = NoCall
    /\ UNCHANGED <<repositories, othersLinked>>

InsertRepository(userID, accountID) ==
    /\ linkedInserted < MaxLinkedDocs
    /\ linkedInserted' = linkedInserted + 1
    /\ repositories' = repositories \cup
          {[id |-> linkedInserted + 1, user_id |-> userID, account_id |-> accountID]}
    /\ unlinkCall' = NoCall
    /\ UNCHANGED <<externalTokens, othersLinked>>

(* the token documents with this _id that belong to the caller *)
FindLinkedAccount(ts, userID, accountID) ==
    {t \in ts : t.id = accountID.id /\ t.user_id = userID}

(* the cached repositories removed when token is unlinked *)
RepositoriesOfAccountAnyUser(rs, token) ==
    {r \in rs : r.account_id \in {token.account_id, NoAccountID}}
RepositoriesOfAccount(rs, token) ==
    {r \in rs : /\ r.user_id = token.user_id
                /\ r.account_id \in {token.account_id, NoAccountID}}

DeleteLinkedAccountStatus(ts, userID, accountID) ==
    IF ~accountID.wellformed THEN 404
    ELSE IF FindLinkedAccount(ts, userID, accountID) = {} THEN 404
    ELSE IF ~(CHOOSE t \in FindLinkedAccount(ts, userID, accountID) : TRUE).is_unlinkable THEN 400
    ELSE 200

DeleteLinkedAccount(userID, accountID) ==
    LET status == DeleteLinkedAccountStatus(externalTokens, userID, accountID)
        found == FindLinkedAccount(externalTokens, userID, accountID)
    IN  /\ unlinkCall' = [op |-> "DeleteLinkedAccount", user_id |-> userID,
                          account_id |-> accountID, status |-> status,
                          preTokens |-> externalTokens, preRepositories |-> repositories]
        /\ IF status = 200
           THEN LET token == CHOOSE t \in found : TRUE
                IN  /\ externalTokens' = externalTokens \ {token}
                    /\ repositories' =
                          IF token.service_id = ServiceGithub
                          THEN repositories \ RepositoriesOfAccount(repositories, token)
                          ELSE repositories
           ELSE UNCHANGED <<externalTokens, repositories>>
        /\ UNCHANGED <<linkedInserted, othersLinked>>

(***************************************************************************)
(* GithubPRSource.GetPullRequests and the goroutines it starts.  Every     *)
(* channel is unbuffered: a send and its receive are one joint step of the *)
(* sender waiting at its send and the receiver waiting at its receive.     *)
(* The result channel is read by the caller whenever a send is waiting.    *)
(* A pull request channel is named by the pull request it was made for.    *)
(***************************************************************************)
PullRequestIDs == {"p1", "p2", "p3"}
RepositoryIDs == {"r1", "r2"}
Starters == {"getGithubUser", "getUserTeams", "getGithubRepositories"}

NoPullRequestDoc == [exists |-> FALSE, is_completed |-> FALSE, last_fetched |-> 0]
NoPullRequest == [kind |-> "none", is_completed |-> FALSE]
NilPullRequest == [kind |-> "nil", is_completed |-> FALSE]
CachedPullRequest(doc) == [kind |-> "cached", is_completed |-> doc.is_completed]
FetchedPullRequest == [kind |-> "new", is_completed |-> FALSE]

IdleMain ==
    [pc |-> "idle", repositories |-> <<>>, repo_index |-> 1, channels |-> <<>>,
     times |-> <<>>, pr_index |-> 1, pull_requests |-> <<>>]
IdleStarter == [pc |-> "idle", ok |-> TRUE, repositories |-> <<>>]
IdleRepoProc ==
    [pc |-> "idle", error |-> FALSE, should_log |-> FALSE, fetched |-> <<>>,
     channels |-> <<>>, times |-> <<>>]
IdleInfoProc ==
    [pc |-> "idle", request_time |-> 0, check |-> "none", fetched |-> FALSE,
     value |-> NoPullRequest]

emptyPullRequestResult(err) == [pull_requests |-> <<>>, error |-> err]
PullRequestResult(pullRequests) == [pull_requests |-> pullRequests, error |-> ""]

(* url.Parse gives a nil URL with its error, which setOverrideURL          *)
(* dereferences before it returns: a malformed override URL panics.        *)
OverrideURLs == {"nil", "valid", "malformed"}
setOverrideURL(overrideURL) == IF overrideURL = "malformed" THEN "panic" ELSE "ok"

Panic ==
    /\ prPanicked' = TRUE
    /\ UNCHANGED <<prDocs, prCached, prClock, prMain, prStarters, prRepoProcs,
                   prInfoProcs, prResults, prUpserted>>

(* a cached pull request of the user, as an earlier refresh left it *)
InsertPullRequest(p, isCompleted) ==
    /\ prMain.pc = "idle"
    /\ ~prDocs[p].exists
    /\ prDocs' = [prDocs EXCEPT ![p] = [exists |-> TRUE, is_completed |-> isCompleted,
                                        last_fetched |-> 0]]
    /\ UNCHANGED <<prCached, prClock, prMain, prStarters, prRepoProcs, prInfoProcs,
                   prResults, prUpserted, prPanicked, othersPullRequests>>

(* GetPullRequests up to the three go statements *)
GetPullRequestsStart(tokenLoaded) ==
    /\ prMain.pc = "idle"
    /\ prCached' = prDocs
    /\ IF ~tokenLoaded
       THEN /\ prResults' = Append(prResults,
                               emptyPullRequestResult("failed to fetch Github API token"))
            /\ prMain' = [prMain EXCEPT !.pc = "done"]
            /\ UNCHANGED prStarters
       ELSE /\ prStarters' = [g \in Starters |-> [IdleStarter EXCEPT !.pc = "run"]]
            /\ prMain' = [prMain EXCEPT !.pc = "recvUser"]
            /\ UNCHANGED prResults
    /\ UNCHANGED <<prDocs, prClock, prRepoProcs, prInfoProcs, prUpserted, prPanicked,
                   othersPullRequests>>

(* getGithubUser, getUserTeams, getGithubRepositories up to their send *)
StarterRun(g, overrideURL, ok, fetchedRepositories) ==
    /\ prStarters[g].pc = "run"
    /\ IF setOverrideURL(overrideURL) = "panic"
       THEN Panic
       ELSE /\ prStarters' = [prStarters EXCEPT ![g] =
                                 [pc |-> "send", ok |-> ok,
                                  repositories |-> IF ok THEN fetchedRepositories ELSE <<>>]]
            /\ UNCHANGED <<prDocs, prCached, prClock, prMain, prRepoProcs, prInfoProcs,
                           prResults, prUpserted, prPanicked>>
    /\ UNCHANGED othersPullRequests

StarterErrors ==
    [g \in Starters |->
        IF g = "getGithubUser" THEN "failed to fetch Github user"
        ELSE IF g = "getUserTeams" THEN "failed to fetch Github user teams"
        ELSE "failed to fetch Github repos for user"]
StarterReceivedAt ==
    [g \in Starters |->
        IF g = "getGithubUser" THEN "recvUser"
        ELSE IF g = "getUserTeams" THEN "recvTeams"
        ELSE "recvRepos"]

AfterPullRequests(index, channels) ==
    IF index > Len(channels) THEN "sendResult" ELSE "recvPR"

(* GetPullRequests receives from one of the three channels; after the  *)
(* repositories it starts processRepository for each of them           *)
ReceiveStarter(g) ==
    /\ prMain.pc = StarterReceivedAt[g]
    /\ prStarters[g].pc = "send"
    /\ prStarters' = [prStarters EXCEPT ![g].pc = "done"]
    /\ IF ~prStarters[g].ok
       THEN /\ prResults' = Append(prResults, emptyPullRequestResult(StarterErrors[g]))
            /\ prMain' = [prMain EXCEPT !.pc = "done"]
            /\ UNCHANGED prRepoProcs
       ELSE /\ UNCHANGED prResults
            /\ IF g = "getGithubUser"
               THEN /\ prMain' = [prMain EXCEPT !.pc = "recvTeams"]
                    /\ UNCHANGED prRepoProcs
               ELSE IF g = "getUserTeams"
               THEN /\ prMain' = [prMain EXCEPT !.pc = "recvRepos"]
                    /\ UNCHANGED prRepoProcs
               ELSE LET fetchedRepositories == prStarters[g].repositories
                    IN  /\ prMain' = [prMain EXCEPT
                                         !.repositories = fetchedRepositories,
                                         !.pc = IF fetchedRepositories = <<>> THEN "sendResult"
                                                ELSE "recvRepo"]
                        /\ prRepoProcs' =
                              [r \in RepositoryIDs |->
                                  IF \E i \in 1..Len(fetchedRepositories) : fetchedRepositories[i] = r
                                  THEN [IdleRepoProc EXCEPT !.pc = "run"]
                                  ELSE prRepoProcs[r]]
    /\ UNCHANGED <<prDocs, prCached, prClock, prInfoProcs, prUpserted, prPanicked,
                   othersPullRequests>>

(* processRepository up to its loop: updateOrCreateRepository and           *)
(* getGithubPullRequests; an error that shouldLogError passes over leaves   *)
(* the list empty                                                           *)
ProcessRepositoryOutcomes == {"ok", "repositoryUpsertFails", "listFails", "listFailsUnlogged"}

ProcessRepositoryRun(r, overrideURL, outcome, fetched) ==
    /\ prRepoProcs[r].pc = "run"
    /\ IF outcome # "repositoryUpsertFails" /\ setOverrideURL(overrideURL) = "panic"
       THEN Panic
       ELSE /\ prRepoProcs' = [prRepoProcs EXCEPT ![r] =
                  IF outcome = "repositoryUpsertFails"
                  THEN [@ EXCEPT !.pc = "send", !.error = TRUE]
                  ELSE IF outcome = "listFails"
                  THEN [@ EXCEPT !.pc = "send", !.error = TRUE, !.should_log = TRUE]
                  ELSE IF outcome = "listFailsUnlogged" \/ fetched = <<>>
                  THEN [@ EXCEPT !.pc = "send"]
                  ELSE [@ EXCEPT !.pc = "loop", !.fetched = fetched]]
            /\ UNCHANGED <<prDocs, prCached, prClock, prMain, prStarters, prInfoProcs,
                           prResults, prUpserted, prPanicked>>
    /\ UNCHANGED othersPullRequests

AppendRequestTimeFirst(requestTimes, time) == <<time>> \o requestTimes
AppendRequestTime(requestTimes, time) == Append(requestTimes, time)

(* one iteration of processRepository's loop: the request time is taken, *)
(* getPullRequestInfo is started, its channel is appended; a later       *)
(* reading of time.Now() is a later time                                 *)
ProcessRepositoryLoop(r) ==
    /\ prRepoProcs[r].pc = "loop"
    /\ LET proc == prRepoProcs[r]
           p == proc.fetched[Len(proc.channels) + 1]
       IN  /\ prInfoProcs' = [prInfoProcs EXCEPT ![p] =
                                 [IdleInfoProc EXCEPT !.pc = "run", !.request_time = prClock]]
           /\ prRepoProcs' = [prRepoProcs EXCEPT ![r] =
                                 [@ EXCEPT !.times = AppendRequestTime(proc.times, prClock),
                                           !.channels = Append(proc.channels, p),
                                           !.pc = IF Len(proc.channels) + 1 = Len(proc.fetched)
                                                  THEN "send" ELSE "loop"]]
    /\ prClock' = prClock + 1
    /\ UNCHANGED <<prDocs, prCached, prMain, prStarters, prResults, prUpserted,
                   prPanicked, othersPullRequests>>

ExtendChannelsFirst(pullRequestChannels, result) == result.channels \o pullRequestChannels
ExtendChannels(pullRequestChannels, result) == pullRequestChannels \o result.channels
ExtendRequestTimes(requestTimes, result) == requestTimes \o result.times

(* GetPullRequests receives the result of the next repository: an error  *)
(* is sent on the result channel and the loop goes on                    *)
ReceiveRepository ==
    /\ prMain.pc = "recvRepo"
    /\ LET r == prMain.repositories[prMain.repo_index]
           result == prRepoProcs[r]
           channels == ExtendChannels(prMain.channels, result)
       IN  /\ result.pc = "send"
           /\ prRepoProcs' = [prRepoProcs EXCEPT ![r].pc = "done"]
           /\ prResults' = IF result.error
                           THEN Append(prResults,
                                   emptyPullRequestResult("failed to process Github repo"))
                           ELSE prResults
           /\ prMain' = [prMain EXCEPT
                            !.channels = channels,
                            !.times = ExtendRequestTimes(prMain.times, result),
                            !.repo_index = prMain.repo_index + 1,
                            !.pc = IF prMain.repo_index + 1 > Len(prMain.repositories)
                                   THEN AfterPullRequests(1, channels)
                                   ELSE "recvRepo"]
    /\ UNCHANGED <<prDocs, prCached, prClock, prStarters, prInfoProcs, prUpserted,
                   prPanicked, othersPullRequests>>

(* hasBeenModified and whether the cached record is handed back *)
pullRequestHasBeenModifiedAlways(doc, response) == [modified |-> TRUE, cached |-> doc.exists]
pullRequestHasBeenModified(doc, response) ==
    IF ~doc.exists THEN [modified |-> TRUE, cached |-> FALSE]
    ELSE IF response = "error" THEN [modified |-> TRUE, cached |-> TRUE]
    ELSE [modified |-> response # "304", cached |-> TRUE]

ModifiedResponses == {"304", "200", "error"}

(* getPullRequestInfo up to its send: the check whether the pull request *)
(* changed, then reviews, comments, additions and checks from GitHub     *)
getPullRequestInfo(p, response, overrideURL, ok) ==
    /\ prInfoProcs[p].pc = "run"
    /\ LET check == pullRequestHasBeenModified(prDocs[p], response)
           info == [prInfoProcs[p] EXCEPT
                       !.check = IF prDocs[p].exists THEN response ELSE "nodoc",
                       !.pc = "send"]
       IN  IF ~check.modified
           THEN /\ prInfoProcs' = [prInfoProcs EXCEPT ![p] =
                                      [info EXCEPT !.value = CachedPullRequest(prDocs[p])]]
                /\ UNCHANGED <<prDocs, prCached, prClock, prMain, prStarters, prRepoProcs,
                               prResults, prUpserted, prPanicked>>
           ELSE IF setOverrideURL(overrideURL) = "panic"
           THEN Panic
           ELSE /\ prInfoProcs' = [prInfoProcs EXCEPT ![p] =
                                      [info EXCEPT !.fetched = TRUE,
                                                   !.value = IF ok THEN FetchedPullRequest
                                                             ELSE NilPullRequest]]
                /\ UNCHANGED <<prDocs, prCached, prClock, prMain, prStarters, prRepoProcs,
                               prResults, prUpserted, prPanicked>>
    /\ UNCHANGED othersPullRequests

IsNilPullRequestNever(pullRequest) == FALSE
IsNilPullRequest(pullRequest) == pullRequest.kind = "nil"

SkipsUpsertWhenCached(pullRequest) == pullRequest.kind = "cached"
SkipsUpsert(pullRequest) == pullRequest.kind = "cached" /\ ~pullRequest.is_completed

(* GetPullRequests receives the next pull request and, unless it is nil  *)
(* or a cached one that is not completed, upserts it                     *)
ReceivePullRequest(upsertOK) ==
    /\ prMain.pc = "recvPR"
    /\ LET p == prMain.channels[prMain.pr_index]
           pullRequest == prInfoProcs[p].value
           next == [prMain EXCEPT !.pr_index = prMain.pr_index + 1,
                                  !.pc = AfterPullRequests(prMain.pr_index + 1, prMain.channels)]
       IN  /\ prInfoProcs[p].pc = "send"
           /\ prInfoProcs' = [prInfoProcs EXCEPT ![p].pc = "done"]
           /\ IF IsNilPullRequest(pullRequest)
              THEN /\ upsertOK
                   /\ prMain' = next
                   /\ UNCHANGED <<prDocs, prResults, prUpserted>>
              ELSE IF SkipsUpsert(pullRequest)
              THEN /\ upsertOK
                   /\ prMain' = [next EXCEPT !.pull_requests = Append(@, p)]
                   /\ UNCHANGED <<prDocs, prResults, prUpserted>>
              ELSE /\ prUpserted' = prUpserted \cup {p}
                   /\ IF upsertOK
                      THEN /\ prDocs' = [prDocs EXCEPT ![p] =
                                 [exists |-> TRUE, is_completed |-> FALSE,
                                  last_fetched |-> prMain.times[prMain.pr_index]]]
                           /\ prMain' = [next EXCEPT !.pull_requests = Append(@, p)]
                           /\ UNCHANGED prResults
                      ELSE /\ prResults' = Append(prResults,
                                  emptyPullRequestResult("failed to update or create pull request"))
                           /\ prMain' = [prMain EXCEPT !.pc = "done"]
                           /\ UNCHANGED prDocs
    /\ UNCHANGED <<prCached, prClock, prStarters, prRepoProcs, prPanicked,
                   othersPullRequests>>

(* the last statement of GetPullRequests *)
SendPullRequestResult ==
    /\ prMain.pc = "sendResult"
    /\ prResults' = Append(prResults, PullRequestResult(prMain.pull_requests))
    /\ prMain' = [prMain EXCEPT !.pc = "done"]
    /\ UNCHANGED <<prDocs, prCached, prClock, prStarters, prRepoProcs, prInfoProcs,
                   prUpserted, prPanicked, othersPullRequests>>

(***************************************************************************)
(* Two calls of AdjustOrderingIDsForCollection on one user's collection,   *)
(* each running statement by statement: the UpdateMany, the sorted Find,   *)
(* and one loop iteration with its UpdateOne are single steps, and the     *)
(* steps of the two calls interleave freely.                               *)
(***************************************************************************)
Callers == {"call1", "call2"}
ListUser == "u1"
IdleAdjust == [pc |-> "idle", item_id |-> 0, ordering_id |-> 0, found |-> <<>>, index |-> 0]

(* a document appended to the end of the user's list *)
InsertListItem ==
    /\ Len(listItems) < MaxListItems
    /\ \A c \in Callers : listCalls[c].pc = "idle"
    /\ listItems' = Append(listItems, [user_id |-> ListUser, id_ordering |-> Len(listItems) + 1])
    /\ UNCHANGED <<listCalls, othersList>>

(* the call and its first statement: UpdateMany ... $inc id_ordering *)
AdjustShift(c, itemID, orderingID) ==
    /\ listCalls[c].pc = "idle"
    /\ listItems' = ShiftOrderingIDs(listItems, ListUser, itemID, orderingID)
    /\ listCalls' = [listCalls EXCEPT ![c] =
                        [IdleAdjust EXCEPT !.pc = "find", !.item_id = itemID,
                                           !.ordering_id = orderingID]]
    /\ UNCHANGED othersList

(* Find sorted by id_ordering and cursor.All: the call's copy of the list *)
AdjustFind(c) ==
    /\ listCalls[c].pc = "find"
    /\ \E sorted \in SortedByOrdering(listItems, UserItemIDs(listItems, ListUser)) :
          listCalls' = [listCalls EXCEPT ![c] =
                           [@ EXCEPT !.pc = IF Len(sorted) = 0 THEN "done" ELSE "loop",
                                     !.index = 0,
                                     !.found = [k \in 1..Len(sorted) |->
                                                   [id |-> sorted[k],
                                                    id_ordering |-> listItems[sorted[k]].id_ordering]]]]
    /\ UNCHANGED <<listItems, othersList>>

(* what one iteration writes: nothing when the copy already has the value *)
AdjustLoopWrite(its, item, index) ==
    IF item.id_ordering # NewIDOrdering(index)
    THEN [its EXCEPT ![item.id].id_ordering = NewIDOrdering(index)]
    ELSE its

(* one iteration of the loop over the copy, with its UpdateOne *)
AdjustLoop(c) ==
    /\ listCalls[c].pc = "loop"
    /\ LET call == listCalls[c]
           item == call.found[call.index + 1]
       IN  /\ listItems' = AdjustLoopWrite(listItems, item, call.index)
           /\ listCalls' = [listCalls EXCEPT ![c] =
                               [@ EXCEPT !.index = call.index + 1,
                                         !.pc = IF call.index + 1 = Len(call.found)
                                                THEN "done" ELSE "loop"]]
    /\ UNCHANGED othersList

(***************************************************************************)
(* getPullRequestRequiredAction and the ordering of the required actions   *)
(***************************************************************************)
ActionReviewPR == "Review PR"
ActionAddReviewers == "Add Reviewers"
ActionFixFailedCI == "Fix Failed CI"
ActionAddressComments == "Address Comments"
ActionFixMergeConflicts == "Fix Merge Conflicts"
ActionWaitingOnCI == "Waiting on CI"
ActionMergePR == "Merge PR"
ActionWaitingOnReview == "Waiting on Review"
ActionWaitingOnAuthor == "Waiting on Author"
ActionNoneNeeded == "Not Actionable"

ActionOrdering ==
    (ActionReviewPR :> 0) @@ (ActionAddReviewers :> 1) @@ (ActionFixFailedCI :> 2) @@
    (ActionAddressComments :> 3) @@ (ActionFixMergeConflicts :> 4) @@
    (ActionWaitingOnCI :> 5) @@ (ActionMergePR :> 6) @@ (ActionWaitingOnReview :> 7) @@
    (ActionWaitingOnAuthor :> 8) @@ (ActionNoneNeeded :> 9)

getPullRequestRequiredActionMergeFirst(data) ==
    IF data.IsOwnedByUser
    THEN IF data.RequestedReviewers = 0 THEN ActionAddReviewers
         ELSE IF data.ChecksDidFail THEN ActionFixFailedCI
         ELSE IF data.HaveRequestedChanges THEN ActionAddressComments
         ELSE IF ~data.IsMergeable THEN ActionFixMergeConflicts
         ELSE IF data.IsApproved THEN ActionMergePR
         ELSE IF ~data.ChecksDidFinish THEN ActionWaitingOnCI
         ELSE ActionWaitingOnReview
    ELSE IF data.UserIsReviewer THEN ActionReviewPR ELSE ActionWaitingOnAuthor

getPullRequestRequiredAction(data) ==
    IF data.IsOwnedByUser
    THEN IF data.RequestedReviewers = 0 THEN ActionAddReviewers
         ELSE IF data.ChecksDidFail THEN ActionFixFailedCI
         ELSE IF data.HaveRequestedChanges THEN ActionAddressComments
         ELSE IF ~data.IsMergeable THEN ActionFixMergeConflicts
         ELSE IF ~data.ChecksDidFinish THEN ActionWaitingOnCI
         ELSE IF data.IsApproved THEN ActionMergePR
         ELSE ActionWaitingOnReview
    ELSE LET action == IF data.UserIsReviewer THEN ActionReviewPR ELSE ""
         IN  IF action = "" THEN ActionWaitingOnAuthor ELSE action

(* requiredAction = getPullRequestRequiredAction(GithubPRData{...}) *)
RequiredAction(data) ==
    /\ actionCall' = [op |-> "getPullRequestRequiredAction", data |-> data,
                      action |-> getPullRequestRequiredAction(data)]
    /\ UNCHANGED othersAction

(***************************************************************************)
(* reviewersHaveRequestedChanges                                           *)
(***************************************************************************)
StateApproved == "APPROVED"
StateChangesRequested == "CHANGES_REQUESTED"
StateCommented == "COMMENTED"
StateDismissed == "DISMISSED"
ReviewLogins == {"alice", "bob"}
NoReview == ""

(* whether the loop records the review (it skips COMMENTED reviews) *)
RecordsReviewAlways(reviewState) == TRUE
RecordsReview(reviewState) == reviewState # StateCommented

RECURSIVE userToMostRecentReview(_, _)
(* the map the first loop builds, starting from map *)
userToMostRecentReview(reviews, map) ==
    IF reviews = <<>> THEN map
    ELSE LET review == Head(reviews)
         IN  userToMostRecentReview(Tail(reviews),
                IF RecordsReview(review.state)
                THEN [map EXCEPT ![review.login] = review.state]
                ELSE map)

reviewersHaveRequestedChanges(reviews) ==
    LET map == userToMostRecentReview(reviews, [l \in ReviewLogins |-> NoReview])
    IN  \E l \in ReviewLogins : map[l] = StateChangesRequested

(* HaveRequestedChanges: reviewersHaveRequestedChanges(reviews) *)
HaveRequestedChanges(reviews) ==
    /\ reviewCall' = [op |-> "reviewersHaveRequestedChanges", reviews |-> reviews,
                      result |-> reviewersHaveRequestedChanges(reviews)]
    /\ UNCHANGED othersReview

(***************************************************************************)
(* API.TaskModify, ValidateFields, API.UpdateTaskInDB,                     *)
(* API.UpdateTaskInDBWithError                                             *)
(* taskCollection is the task collection the handlers read and write; a    *)
(* document's _id is its index. responses lists the status codes the       *)
(* handler wrote to the gin context while it served the request, in order. *)
(* Request fields the handler only copies (body, due_date, time_duration,  *)
(* external_priority, task_number, recurring_task_template_id) are left    *)
(* out. A struct handed to $set stores only its non-empty fields (the      *)
(* omitempty tags of task_modify.go:21-43).                                *)
(***************************************************************************)
TASK_SOURCE_ID_GT_TASK == "gt_task"
TASK_SOURCE_ID_LINEAR == "linear"
SourceNotCompletable == "not_completable"

(* taskSourceResult.Details.IsCompletable *)
IsCompletable(sourceID) == sourceID # SourceNotCompletable

StringSharedAccessPublic == "public"
StringSharedAccessDomain == "domain"
IDTaskSectionDefault == "s0"
ValidSectionHex == SectionIDs \cup {IDTaskSectionDefault}

StatusTodo == [ExternalID |-> "todo", IsCompletedStatus |-> FALSE]
StatusDone == [ExternalID |-> "done", IsCompletedStatus |-> TRUE]
StatusInProgress == [ExternalID |-> "in_progress", IsCompletedStatus |-> FALSE]
StatusUnknown == [ExternalID |-> "unknown", IsCompletedStatus |-> FALSE]
(* task.AllStatuses of a task whose source has statuses *)
SourceStatuses == <<StatusTodo, StatusInProgress, StatusDone>>

NewTaskDoc(userID, sourceID, ord, isDeleted, isCompleted, status, previous, completed, allStatuses, parent) ==
    [user_id |-> userID, source_id |-> sourceID, title |-> "t1",
     id_ordering |-> ord, id_task_section |-> "s1",
     is_deleted |-> isDeleted, is_completed |-> isCompleted,
     parent_task_id |-> parent, has_been_reordered |-> FALSE,
     shared_until |-> 0, shared_access |-> NilPtr,
     status |-> status, previous_status |-> previous,
     completed_status |-> completed, all_statuses |-> allStatuses,
     comments |-> NilPtr]

(* the fields of a database.Task handed to $set; nothing is set *)
EmptyUpdate ==
    [user_id |-> NilPtr, id_task_section |-> NilPtr, title |-> NilPtr,
     is_completed |-> NilPtr, is_deleted |-> NilPtr,
     shared_access |-> NilPtr, shared_until |-> 0,
     status |-> NilPtr, previous_status |-> NilPtr,
     completed_status |-> NilPtr, comments |-> NilPtr]

(* $set updateFields on one document *)
SetUpdateFields(doc, u) ==
    [doc EXCEPT
        !.user_id = IF u.user_id # NilPtr THEN ValueOf(u.user_id) ELSE @,
        !.id_task_section = IF u.id_task_section # NilPtr THEN ValueOf(u.id_task_section) ELSE @,
        !.title = IF u.title # NilPtr THEN ValueOf(u.title) ELSE @,
        !.is_completed = IF u.is_completed # NilPtr THEN u.is_completed ELSE @,
        !.is_deleted = IF u.is_deleted # NilPtr THEN u.is_deleted ELSE @,
        !.shared_access = IF u.shared_access # NilPtr THEN u.shared_access ELSE @,
        !.shared_until = IF u.shared_until # 0 THEN u.shared_until ELSE @,
        !.status = IF u.status # NilPtr THEN u.status ELSE @,
        !.previous_status = IF u.previous_status # NilPtr THEN u.previous_status ELSE @,
        !.completed_status = IF u.completed_status # NilPtr THEN u.completed_status ELSE @,
        !.comments = IF u.comments # NilPtr THEN u.comments ELSE @]

(* task_modify.go:386-393: a completion change swaps status with the cached one *)
WithCompletionStatus(task, updateFields) ==
    IF updateFields.is_completed # NilPtr
    THEN [updateFields EXCEPT
            !.previous_status = task.status,
            !.status = IF ValueOf(updateFields.is_completed)
                       THEN task.completed_status
                       ELSE task.previous_status]
    ELSE updateFields

(* UpdateOne {_id: task.ID, user_id: userID} $set updateFields; task is the *)
(* document the caller fetched, at index taskID. dbOK is FALSE when the     *)
(* driver returns an error. The result holds the collection afterwards.    *)
UpdateTaskInDBWithError(coll, taskID, task, userID, updateFields, dbOK) ==
    LET fields == WithCompletionStatus(task, updateFields)
    IN  IF ~dbOK
        THEN [err |-> TRUE, coll |-> coll]
        ELSE IF MatchedCount(coll, taskID, userID) # 1
        THEN [err |-> TRUE, coll |-> coll]
        ELSE [err |-> FALSE,
              coll |-> [coll EXCEPT ![taskID] = SetUpdateFields(@, fields)]]

(* API.UpdateTaskInDB: Handle500 on an error, and nothing is returned *)
UpdateTaskInDB(coll, taskID, task, userID, updateFields, dbOK) ==
    LET res == UpdateTaskInDBWithError(coll, taskID, task, userID, updateFields, dbOK)
    IN  [coll |-> res.coll, codes |-> IF res.err THEN <<500>> ELSE << >>]

(* the body of a TaskModify request; nothing is set *)
NoParams ==
    [IDOrdering |-> NilPtr, IDTaskSection |-> NilPtr, Title |-> NilPtr,
     IsCompleted |-> NilPtr, IsDeleted |-> NilPtr,
     SharedAccess |-> NilPtr, SharedUntil |-> 0,
     Status |-> NilPtr, PreviousStatus |-> NilPtr, CompletedStatus |-> NilPtr]

(* modifyParams.TaskItemChangeableFields == (TaskItemChangeableFields{}) *)
ChangeableFieldsEmpty(params) ==
    /\ params.Title = NilPtr
    /\ params.IsCompleted = NilPtr
    /\ params.IsDeleted = NilPtr
    /\ params.SharedAccess = NilPtr
    /\ params.SharedUntil = 0
    /\ params.Status = NilPtr
    /\ params.PreviousStatus = NilPtr
    /\ params.CompletedStatus = NilPtr

(* the last entry of task.AllStatuses with the requested ExternalID *)
StatusToUpdateTo(task, status) ==
    LET matches == {i \in DOMAIN task.all_statuses :
                       task.all_statuses[i].ExternalID = status.ExternalID}
    IN  IF matches = {}
        THEN NilPtr
        ELSE Ptr(task.all_statuses[CHOOSE i \in matches : \A j \in matches : j <= i])

(* task_modify.go:222: the requested status changes the task's completion *)
StatusFlipsCompletion(task, status) ==
    /\ task.is_completed # NilPtr
    /\ \/ ValueOf(task.is_completed) /\ ~status.IsCompletedStatus
       \/ ~ValueOf(task.is_completed) /\ status.IsCompletedStatus

(* task_modify.go:207-225: the status block rewrites the request's fields *)
WithRequestedStatus(params, task) ==
    IF params.Status = NilPtr
    THEN params
    ELSE LET statusToUpdateTo == ValueOf(StatusToUpdateTo(task, ValueOf(params.Status)))
         IN  [params EXCEPT
                !.CompletedStatus = IF statusToUpdateTo.IsCompletedStatus
                                    THEN Ptr(statusToUpdateTo) ELSE @,
                !.IsCompleted = IF StatusFlipsCompletion(task, statusToUpdateTo)
                                THEN Ptr(statusToUpdateTo.IsCompletedStatus) ELSE @]

(* task_modify.go:200-203 *)
CannotBeMarkedDone(params, task) ==
    LET isTaskDeletedInRequest == params.IsDeleted = NilPtr \/ ValueOf(params.IsDeleted)
        isTaskDeletedInDb == task.is_deleted # NilPtr /\ ValueOf(task.is_deleted)
        isTaskDeleted == isTaskDeletedInRequest /\ isTaskDeletedInDb
    IN  /\ params.IsCompleted = Ptr(TRUE)
        /\ (~IsCompletable(task.source_id) \/ isTaskDeleted)

(* ValidateFields: ok is FALSE when it answered 400; fields are the        *)
(* request's fields as the function leaves them                            *)
ValidateFields(params, task) ==
    IF CannotBeMarkedDone(params, task)
    THEN [ok |-> FALSE, fields |-> params]
    ELSE IF params.Status # NilPtr /\ StatusToUpdateTo(task, ValueOf(params.Status)) = NilPtr
    THEN [ok |-> FALSE, fields |-> params]
    ELSE LET fields == WithRequestedStatus(params, task)
         IN  IF fields.Title = Ptr("")
             THEN [ok |-> FALSE, fields |-> fields]
             ELSE [ok |-> TRUE, fields |-> fields]

(* variant: any requested shared_access is stored *)
SharedAccessOfAny(stringSharedAccess) == Ptr(stringSharedAccess)

(* task_modify.go:155-166: NilPtr for an invalid shared access token *)
SharedAccessOf(stringSharedAccess) ==
    IF stringSharedAccess = StringSharedAccessPublic THEN Ptr(SharedAccessPublic)
    ELSE IF stringSharedAccess = StringSharedAccessDomain THEN Ptr(SharedAccessDomain)
    ELSE NilPtr

(* task_modify.go:120-137 *)
UpdateTaskOf(fields) ==
    [EmptyUpdate EXCEPT
        !.title = fields.Title,
        !.is_completed = fields.IsCompleted,
        !.is_deleted = fields.IsDeleted,
        !.shared_until = fields.SharedUntil,
        !.status = fields.Status,
        !.previous_status = fields.PreviousStatus,
        !.completed_status = fields.CompletedStatus]

(* task_modify.go:175-184: the task is handed to the user the title names *)
TempTitle == "t9"
WithAssignedUser(updateTask, fields, assigned) ==
    IF fields.Title # NilPtr /\ assigned # NilPtr
    THEN [updateTask EXCEPT
            !.user_id = assigned,
            !.id_task_section = Ptr(IDTaskSectionDefault),
            !.title = Ptr(TempTitle)]
    ELSE updateTask

ModifyResult(taskID, userID, params, env, codes, reordered, updated) ==
    [op |-> "modify", task_id |-> taskID, user_id |-> userID,
     params |-> params, env |-> env, codes |-> codes,
     reordered |-> reordered, updated |-> updated, pre |-> taskCollection]

Respond(taskID, userID, params, env, coll, codes, reordered, updated) ==
    /\ taskCollection' = coll
    /\ responses' = codes
    /\ modifyCall' = ModifyResult(taskID, userID, params, env, codes, reordered, updated)
    /\ UNCHANGED othersModify

(* task_modify.go:188-196: reorder when asked to, then answer 200.         *)
(* codes are the responses written so far, updated tells whether           *)
(* UpdateTaskInDB was called and succeeded                                 *)
ReorderAndRespond(taskID, userID, params, env, task, coll, codes, updated) ==
    IF params.IDOrdering # NilPtr \/ params.IDTaskSection # NilPtr \/ task.parent_task_id # Nil
    THEN IF MatchedCount(coll, taskID, userID) # 1
         THEN Respond(taskID, userID, params, env, coll, codes \o <<404>>, TRUE, updated)
         ELSE LET moved == SetReorderFields(coll, taskID, userID, params.IDOrdering, params.IDTaskSection)
                  IDTaskSection == TargetSection(task, params.IDTaskSection)
              IN  IF params.IDOrdering = NilPtr
                  THEN Respond(taskID, userID, params, env, moved, codes \o <<200>>, TRUE, updated)
                  ELSE LET shifted == MoveBackOtherTasks(moved, taskID, userID,
                                         ValueOf(params.IDOrdering), task, IDTaskSection)
                           ids == TaskResultIDs(shifted, userID, task, IDTaskSection)
                       IN  \E sorted \in SortedByOrdering(shifted, ids) :
                              Respond(taskID, userID, params, env,
                                      UpdateOrderingIDsV2(shifted, sorted),
                                      codes \o <<200>>, TRUE, updated)
    ELSE Respond(taskID, userID, params, env, coll, codes \o <<200>>, FALSE, updated)

(* env: modifyOK is FALSE when Source.ModifyTask fails, dbOK is FALSE when *)
(* the driver fails the update of the task, assigned is the user           *)
(* getValidExternalOwnerAssignedTask found for the title, if any           *)
APITaskModify(taskID, userID, params, env) ==
    /\ modifyCall = NoCall
    /\ IF params.IDTaskSection # NilPtr /\ ValueOf(params.IDTaskSection) \notin ValidSectionHex
       THEN Respond(taskID, userID, params, env, taskCollection, <<400>>, FALSE, FALSE)
       ELSE IF MatchedCount(taskCollection, taskID, userID) # 1
       THEN Respond(taskID, userID, params, env, taskCollection, <<404>>, FALSE, FALSE)
       ELSE IF params = NoParams
       THEN Respond(taskID, userID, params, env, taskCollection, <<400>>, FALSE, FALSE)
       ELSE LET task == taskCollection[taskID]
                valid == ValidateFields(params, task)
                fields == valid.fields
            IN  IF ~valid.ok
                THEN Respond(taskID, userID, params, env, taskCollection, <<400>>, FALSE, FALSE)
                ELSE IF ChangeableFieldsEmpty(fields)
                THEN ReorderAndRespond(taskID, userID, params, env, task,
                                       taskCollection, << >>, FALSE)
                ELSE IF /\ task.source_id # TASK_SOURCE_ID_GT_TASK
                        /\ (fields.SharedUntil # 0 \/ fields.SharedAccess # NilPtr)
                THEN Respond(taskID, userID, params, env, taskCollection, <<400>>, FALSE, FALSE)
                ELSE IF fields.SharedAccess # NilPtr /\ SharedAccessOf(ValueOf(fields.SharedAccess)) = NilPtr
                THEN Respond(taskID, userID, params, env, taskCollection, <<400>>, FALSE, FALSE)
                ELSE IF ~env.modifyOK
                THEN Respond(taskID, userID, params, env, taskCollection, <<500>>, FALSE, FALSE)
                ELSE LET sharedAccess == IF fields.SharedAccess # NilPtr
                                         THEN SharedAccessOf(ValueOf(fields.SharedAccess))
                                         ELSE NilPtr
                         updateTask == WithAssignedUser(
                                          [UpdateTaskOf(fields) EXCEPT !.shared_access = sharedAccess],
                                          fields, env.assigned)
                         res == UpdateTaskInDB(taskCollection, taskID, task, userID,
                                               updateTask, env.dbOK)
                     IN  ReorderAndRespond(taskID, userID, params, env, task,
                                           res.coll, res.codes, res.codes = << >>)

(* a task document created elsewhere (task creation, external fetch) *)
TaskDocProfiles(ord) ==
    {NewTaskDoc(u, TASK_SOURCE_ID_GT_TASK, ord, NilPtr, Ptr(FALSE), NilPtr, NilPtr, NilPtr, << >>, Nil) : u \in UserIDs}
    \cup (IF ord > 1
          THEN {NewTaskDoc("u1", TASK_SOURCE_ID_GT_TASK, ord, NilPtr, Ptr(FALSE), NilPtr, NilPtr, NilPtr, << >>, 1)}
          ELSE {})
    \cup {NewTaskDoc("u1", TASK_SOURCE_ID_LINEAR, ord, NilPtr, Ptr(FALSE), Ptr(StatusTodo), NilPtr, Ptr(StatusDone), SourceStatuses, Nil),
          NewTaskDoc("u1", TASK_SOURCE_ID_LINEAR, ord, NilPtr, Ptr(TRUE), Ptr(StatusDone), Ptr(StatusInProgress), Ptr(StatusDone), SourceStatuses, Nil),
          NewTaskDoc("u1", TASK_SOURCE_ID_LINEAR, ord, NilPtr, NilPtr, Ptr(StatusTodo), NilPtr, Ptr(StatusDone), SourceStatuses, Nil),
          NewTaskDoc("u1", TASK_SOURCE_ID_LINEAR, ord, Ptr(TRUE), Ptr(FALSE), Ptr(StatusTodo), NilPtr, Ptr(StatusDone), SourceStatuses, Nil),
          NewTaskDoc("u1", SourceNotCompletable, ord, NilPtr, Ptr(FALSE), Ptr(StatusTodo), NilPtr, NilPtr, SourceStatuses, Nil)}

InsertTaskDoc(doc) ==
    /\ Len(taskCollection) < MaxModifyTasks
    /\ modifyCall = NoCall
    /\ taskCollection' = Append(taskCollection, doc)
    /\ UNCHANGED <<responses, modifyCall, othersModify>>

SharingParams ==
    {[NoParams EXCEPT !.SharedAccess = a, !.SharedUntil = t] :
        a \in {NilPtr, Ptr(StringSharedAccessPublic), Ptr(StringSharedAccessDomain), Ptr("meeting_attendees")},
        t \in {0, 1}}
CompletionParams ==
    {[NoParams EXCEPT !.IsCompleted = c, !.IsDeleted = d, !.Status = s] :
        c \in {NilPtr, Ptr(TRUE), Ptr(FALSE)},
        d \in {NilPtr, Ptr(TRUE), Ptr(FALSE)},
        s \in {NilPtr, Ptr(StatusTodo), Ptr(StatusDone), Ptr(StatusUnknown)}}
CachedStatusParams ==
    {[NoParams EXCEPT !.PreviousStatus = p, !.CompletedStatus = c] :
        p \in {NilPtr, Ptr(StatusTodo)}, c \in {NilPtr, Ptr(StatusDone)}}
ReorderParams ==
    {[NoParams EXCEPT !.IDOrdering = o, !.IDTaskSection = s, !.Title = t] :
        o \in {NilPtr, Ptr(1), Ptr(2)},
        s \in {NilPtr, Ptr("s2"), Ptr("zz")},
        t \in {NilPtr, Ptr(""), Ptr("t2")}}
ModifyParams == SharingParams \cup CompletionParams \cup CachedStatusParams \cup ReorderParams

(* what the environment of a request can decide; the outcomes that the     *)
(* request cannot observe are left at their defaults                       *)
ModifyEnvs(params) ==
    {env \in [modifyOK : BOOLEAN, dbOK : BOOLEAN,
              assigned : {NilPtr} \cup {Ptr(u) : u \in UserIDs}] :
        /\ ChangeableFieldsEmpty(params) => env.modifyOK /\ env.dbOK
        /\ ~env.modifyOK => env.dbOK
        /\ params.Title \in {NilPtr, Ptr("")} => env.assigned = NilPtr
        /\ ~(env.modifyOK /\ env.dbOK) => env.assigned = NilPtr}

(***************************************************************************)
(* API.UpdateTaskInDBWithError called on its own, one call after another,  *)
(* each with the task as it is stored when the call starts. updateCall     *)
(* keeps the last call and the one before it.                              *)
(***************************************************************************)
NoStatusChange == [task_id |-> 0, is_completed |-> NilPtr, err |-> FALSE, before |-> NilPtr]

(* what a caller hands over: a completion change (task_modify.go:124) or a *)
(* cached status taken from the request body (task_modify.go:135-136)      *)
StatusUpdates ==
    {[EmptyUpdate EXCEPT !.is_completed = Ptr(TRUE)],
     [EmptyUpdate EXCEPT !.is_completed = Ptr(FALSE)],
     [EmptyUpdate EXCEPT !.completed_status = Ptr(StatusDone)]}

InsertStatusTask(doc) ==
    /\ Len(taskCollection) < MaxStatusTasks
    /\ updateCount = 0
    /\ taskCollection' = Append(taskCollection, doc)
    /\ UNCHANGED <<responses, modifyCall, updateCall, updateCount, othersTaskUpdate>>

UpdateTask(taskID, updateFields, dbOK) ==
    /\ taskID \in TaskIDs(taskCollection)
    /\ updateCount < MaxUpdateCalls
    /\ LET task == taskCollection[taskID]
           res == UpdateTaskInDBWithError(taskCollection, taskID, task, task.user_id,
                                          updateFields, dbOK)
       IN  /\ taskCollection' = res.coll
           /\ updateCall' = [op |-> "update",
                             last |-> [task_id |-> taskID,
                                       is_completed |-> updateFields.is_completed,
                                       err |-> res.err, before |-> task.status],
                             previous |-> IF updateCall = NoCall THEN NoStatusChange
                                          ELSE updateCall.last]
    /\ updateCount' = updateCount + 1
    /\ UNCHANGED <<responses, modifyCall, othersTaskUpdate>>

(***************************************************************************)
(* API.TaskAddComment, two requests served concurrently                    *)
(* A request first reads the task (GetTask), then calls the task's source  *)
(* and writes the comment list it read, extended by its own comment        *)
(* (UpdateTaskInDB); other requests can run between the read and the       *)
(* write. commentProcs holds each request's position, the task it read and *)
(* the status codes it wrote.                                              *)
(***************************************************************************)
CommentRequests == {"req1", "req2"}
IdleComment == [pc |-> "idle", user_id |-> "", task |-> NilPtr, codes |-> << >>]

(* the comment a request carries; an empty body is answered 400 *)
CommentOf(r) == IF r = "req1" THEN "n1" ELSE "n2"
StoredComments == <<"c1", "c2", "c3">>

CommentsOf(task) == IF task.comments # NilPtr THEN ValueOf(task.comments) ELSE << >>

InsertCommentedTask(userID, count) ==
    /\ taskCollection = << >>
    /\ LET doc == NewTaskDoc(userID, TASK_SOURCE_ID_GT_TASK, 1, NilPtr, Ptr(FALSE),
                             NilPtr, NilPtr, NilPtr, << >>, Nil)
           comments == IF count = 0 THEN NilPtr ELSE Ptr(SubSeq(StoredComments, 1, count))
       IN  /\ taskCollection' = <<[doc EXCEPT !.comments = comments]>>
           /\ commentsInserted' = CommentsOf([doc EXCEPT !.comments = comments])
    /\ UNCHANGED <<commentProcs, responses, modifyCall, othersTaskComment>>

(* task_comment.go:20-38: GetTask, then the request body is bound *)
CommentRead(r, userID, bodyEmpty) ==
    /\ taskCollection # << >>
    /\ commentProcs[r].pc = "idle"
    /\ IF MatchedCount(taskCollection, 1, userID) # 1
       THEN commentProcs' = [commentProcs EXCEPT ![r] =
                [pc |-> "done", user_id |-> userID, task |-> NilPtr, codes |-> <<404>>]]
       ELSE IF bodyEmpty
       THEN commentProcs' = [commentProcs EXCEPT ![r] =
                [pc |-> "done", user_id |-> userID, task |-> NilPtr, codes |-> <<400>>]]
       ELSE commentProcs' = [commentProcs EXCEPT ![r] =
                [pc |-> "read", user_id |-> userID, task |-> Ptr(taskCollection[1]),
                 codes |-> << >>]]
    /\ UNCHANGED <<taskCollection, commentsInserted, responses, modifyCall, othersTaskComment>>

(* task_comment.go:58-63: the list of the task as read, plus the comment *)
CommentsToStore(task, comment) == Append(CommentsOf(task), comment)

(* task_comment.go:51-69: Source.AddComment, UpdateTaskInDB, c.JSON(200) *)
CommentWrite(r, addOK, dbOK) ==
    /\ commentProcs[r].pc = "read"
    /\ LET task == ValueOf(commentProcs[r].task)
           userID == commentProcs[r].user_id
       IN  IF ~addOK
           THEN /\ commentProcs' = [commentProcs EXCEPT ![r].pc = "done", ![r].codes = <<500>>]
                /\ UNCHANGED taskCollection
           ELSE LET updateTask == [EmptyUpdate EXCEPT
                                      !.comments = Ptr(CommentsToStore(task, CommentOf(r)))]
                    res == UpdateTaskInDB(taskCollection, 1, task, userID, updateTask, dbOK)
                IN  /\ taskCollection' = res.coll
                    /\ commentProcs' = [commentProcs EXCEPT ![r].pc = "done",
                                           ![r].codes = res.codes \o <<200>>]
    /\ UNCHANGED <<commentsInserted, responses, modifyCall, othersTaskComment>>

Init ==
    /\ items = <<>>
    /\ adjCall = NoCall
    /\ tasks = <<>>
    /\ reorderCall = NoCall
    /\ docs = <<>>
    /\ upsertCall = NoCall
    /\ notes = <<>>
    /\ now = 1
    /\ shareResp = NoCall
    /\ stateTokens = {}
    /\ tokensCreated = 0
    /\ deletions = [t \in 1..MaxTokens + 1 |-> 0]
    /\ callbacks = [c \in Callbacks |-> IdleCallback]
    /\ settings = <<>>
    /\ settingCall = NoCall
    /\ internalTokens = {}
    /\ tokensIssued = 0
    /\ loggedOut = {}
    /\ authResp = NoCall
    /\ calEvents = {}
    /\ eventsInserted = 0
    /\ eventCall = NoCall
    /\ externalTokens = {}
    /\ repositories = {}
    /\ linkedInserted = 0
    /\ unlinkCall = NoCall
    /\ prDocs = [p \in PullRequestIDs |-> NoPullRequestDoc]
    /\ prCached = [p \in PullRequestIDs |-> NoPullRequestDoc]
    /\ prClock = 1
    /\ prMain = IdleMain
    /\ prStarters = [g \in Starters |-> IdleStarter]
    /\ prRepoProcs = [r \in RepositoryIDs |-> IdleRepoProc]
    /\ prInfoProcs = [p \in PullRequestIDs |-> IdleInfoProc]
    /\ prResults = <<>>
    /\ prUpserted = {}
    /\ prPanicked = FALSE
    /\ listItems = <<>>
    /\ listCalls = [c \in Callers |-> IdleAdjust]
    /\ actionCall = NoCall
    /\ reviewCall = NoCall
    /\ taskCollection = << >>
    /\ responses = << >>
    /\ modifyCall = NoCall
    /\ updateCall = NoCall
    /\ updateCount = 0
    /\ commentProcs = [r \in CommentRequests |-> IdleComment]
    /\ commentsInserted = << >>

(* the operation does not depend on the order of the _ids: documents are   *)
(* created in one canonical order (by user, then by id_ordering)           *)
ItemRank(item) == (IF item.user_id = "u1" THEN 0 ELSE 1) * (MaxOrdering + 1) + item.id_ordering

NextAdjust ==
    \/ \E u \in UserIDs, ord \in 0..MaxOrdering :
          /\ adjCall = NoCall
          /\ Len(items) >= 1 =>
                ItemRank(items[Len(items)]) <= ItemRank([user_id |-> u, id_ordering |-> ord])
          /\ InsertItem(u, ord)
    \/ \E u \in UserIDs, i \in 0..MaxItems, k \in 0..MaxOrdering + 1 :
          AdjustOrderingIDsForCollection(u, i, k)

SpecAdjust == Init /\ [][NextAdjust]_vars

(***************************************************************************)
(* The task list of user u1: tasks in two sections, one of them deleted or *)
(* completed, a task of another user, and subtasks of the first task.      *)
(* ReOrderTask and the sort do not depend on the order of the _ids, so the *)
(* documents after the first are created in one canonical order.           *)
(***************************************************************************)
TaskProfiles ==
    << [user_id |-> "u1", section |-> "s1", is_deleted |-> NilPtr, is_completed |-> Ptr(FALSE), sub |-> FALSE],
       [user_id |-> "u1", section |-> "s1", is_deleted |-> Ptr(TRUE), is_completed |-> Ptr(FALSE), sub |-> FALSE],
       [user_id |-> "u1", section |-> "s1", is_deleted |-> Ptr(FALSE), is_completed |-> Ptr(TRUE), sub |-> FALSE],
       [user_id |-> "u1", section |-> "s2", is_deleted |-> NilPtr, is_completed |-> NilPtr, sub |-> FALSE],
       [user_id |-> "u2", section |-> "s1", is_deleted |-> NilPtr, is_completed |-> Ptr(FALSE), sub |-> FALSE],
       [user_id |-> "u1", section |-> "s1", is_deleted |-> NilPtr, is_completed |-> Ptr(FALSE), sub |-> TRUE],
       [user_id |-> "u1", section |-> "s1", is_deleted |-> Ptr(TRUE), is_completed |-> Ptr(FALSE), sub |-> TRUE],
       [user_id |-> "u1", section |-> "s1", is_deleted |-> Ptr(FALSE), is_completed |-> Ptr(TRUE), sub |-> TRUE] >>

TaskFromProfile(i, ord) ==
    LET pr == TaskProfiles[i]
    IN  NewTask(pr.user_id, ord, pr.section, pr.is_deleted, pr.is_completed,
                IF pr.sub THEN 1 ELSE Nil)

ProfileRank(i, ord) == i * (MaxTaskOrdering + 1) + ord

CanonicalInsert(ts, i, ord) ==
    /\ TaskProfiles[i].sub =>
          /\ Len(ts) >= 1
          /\ ts[1].user_id = "u1" /\ ts[1].id_task_section = "s1"
    /\ Len(ts) >= 2 =>
          \E j \in DOMAIN TaskProfiles, o \in 1..MaxTaskOrdering :
             /\ ts[Len(ts)] = TaskFromProfile(j, o)
             /\ ProfileRank(j, o) <= ProfileRank(i, ord)

NextReorder ==
    \/ /\ reorderCall = NoCall
       /\ \E i \in DOMAIN TaskProfiles, ord \in 1..MaxTaskOrdering :
             /\ CanonicalInsert(tasks, i, ord)
             /\ InsertTask(TaskFromProfile(i, ord))
    \/ /\ reorderCall = NoCall
       /\ \E t \in 1..MaxTasks,
             k \in {NilPtr} \cup {Ptr(o) : o \in 1..MaxTaskOrdering + 1},
             sec \in {NilPtr, Ptr("s2")} :
             ReOrderTask(t, "u1", k, sec)

SpecReorder == Init /\ [][NextReorder]_vars

(***************************************************************************)
(* Calls of the upsert helpers: keys that differ from (u1, e1, src1) in    *)
(* one component, and structs that carry only a value or also a user_id /  *)
(* id_external (note_list_test.go:48-57, linked_accounts_test.go:193-199). *)
(***************************************************************************)
DocKeys ==
    { <<"u1", "e1", "src1">>, <<"u2", "e1", "src1">>,
      <<"u1", "e2", "src1">>, <<"u1", "e1", "src2">> }

FieldStructs ==
    { [value |-> "v1"], [value |-> "v2"],
      [user_id |-> "u2", value |-> "v1"],
      [id_external |-> "e2", value |-> "v2"] }

FilterChoices == {NoFilters, [source_account_id |-> "a1"]}

NextGetOrCreate ==
    \E key \in DocKeys, f \in FieldStructs :
       GetOrCreateWithCollection(key[1], key[2], key[3], f)

SpecGetOrCreate == Init /\ [][NextGetOrCreate]_vars

NextUpsert ==
    \E key \in DocKeys, ins \in {NilPtr} \cup {Ptr(f) : f \in FieldStructs},
       f \in FieldStructs, flt \in FilterChoices :
       FindOneAndUpdateWithCollection(key[1], key[2], key[3], ins, f, flt)

SpecUpsert == Init /\ [][NextUpsert]_vars

(***************************************************************************)
(* Sharing of tasks: owners with a well-formed and with a malformed email, *)
(* the requests the sharing dropdown sends (share with an access and an    *)
(* expiry, unshare by an expiry in the past), deletion, and lookups by     *)
(* every kind of requester.                                                *)
(***************************************************************************)
TaskOwners == {"u1", "u4"}

ShareRequests ==
    {[is_deleted |-> NilPtr, shared_access |-> Ptr(a), shared_until |-> t] :
        a \in {SharedAccessPublic, SharedAccessDomain, InvalidSharedAccess}, t \in {MaxTime}}
    \cup {[is_deleted |-> NilPtr, shared_access |-> NilPtr, shared_until |-> t] : t \in {0, 1}}
    \cup {[is_deleted |-> Ptr(d), shared_access |-> NilPtr, shared_until |-> 0] : d \in BOOLEAN}

Requesters == {NilPtr} \cup {Ptr(u) : u \in DOMAIN Users \cup {MissingUser}}

NextShareTask ==
    \/ \E u \in TaskOwners : CreateTask(u)
    \/ Tick
    \/ \E t \in 1..MaxSharedTasks, u \in TaskOwners, req \in ShareRequests :
          TaskModify(t, u, req.is_deleted, req.shared_access, req.shared_until)
    \/ /\ shareResp = NoCall
       /\ \E t \in 1..MaxSharedTasks + 1, u \in Requesters : GetSharedTask(t, u)

SpecShareTask == Init /\ [][NextShareTask]_vars

(***************************************************************************)
(* Sharing of notes: notes of user u1 with every shared access, expiry,    *)
(* deletion flag and linked event, looked up by every kind of requester.   *)
(***************************************************************************)
NoteChoices ==
    {NewNote("u1", t, d, a, e) :
        t \in {0, 1, MaxTime}, d \in {NilPtr, Ptr(TRUE)},
        a \in {NilPtr, Ptr(SharedAccessPublic), Ptr(SharedAccessDomain),
               Ptr(SharedAccessMeetingAttendees), Ptr(InvalidSharedAccess)},
        e \in {Nil, 1, 2}}

NextShareNote ==
    \/ \E note \in NoteChoices : InsertNote(note)
    \/ Tick
    \/ /\ shareResp = NoCall
       /\ \E i \in 1..MaxNotes + 1 : GetSharedNote(i)
    \/ /\ shareResp = NoCall
       /\ \E i \in 1..MaxNotes + 1, u \in DOMAIN Users \cup {MissingUser} :
             GetSharedNoteWithAuth(i, u)

SpecShareNote == Init /\ [][NextShareNote]_vars

(***************************************************************************)
(* State tokens created for a login (no user) or for linking an account of *)
(* u1 or u2, and two callbacks that may present the same token at once.    *)
(***************************************************************************)
TokenUsers == {NilPtr, Ptr("u1"), Ptr("u2")}

NextToken ==
    \/ \E u \in TokenUsers : CreateStateToken(u)
    \/ \E c \in Callbacks, t \in 1..MaxTokens + 1, u \in TokenUsers : ReceiveCallback(c, t, u)
    \/ \E c \in Callbacks : DeleteStateToken(c)

SpecToken == Init /\ [][NextToken]_vars

(***************************************************************************)
(* Settings of two users, two field keys, two values each.                 *)
(***************************************************************************)
FieldKeys == {"github_filtering_preference", "github_sorting_preference"}
FieldValues == {"actionable_only", "all_prs"}

NextSettings ==
    \E u \in UserIDs, k \in FieldKeys, v \in FieldValues : UpdateUserSetting(u, k, v)

SpecSettings == Init /\ [][NextSettings]_vars

(***************************************************************************)
(* Logins of two users, requests and logouts with every header shape.      *)
(***************************************************************************)
Headers == {[prefix |-> p, token |-> t] : p \in HeaderPrefixes, t \in 0..MaxLogins + 1}

NextAuth ==
    \/ \E u \in UserIDs : Login(u)
    \/ \E h \in Headers : PingAuthed(h)
    \/ \E h \in Headers : Logout(h)

SpecAuth == Init /\ [][NextAuth]_vars

(***************************************************************************)
(* Cached events of two users and two accounts, inside the window or       *)
(* starting before it or ending after it; the caller is u1 with account a1.*)
(***************************************************************************)
AccountIDs == {"a1", "a2"}
ExternalEventIDs == {"e1", "e2"}

NextEvents ==
    \/ \E u \in UserIDs, a \in AccountIDs, x \in ExternalEventIDs,
          s \in {WindowStart - 1, WindowStart}, e \in {WindowEnd, WindowEnd + 1} :
          /\ eventCall = NoCall
          /\ ~\E ev \in calEvents : ev.user_id = u /\ ev.id_external = x
          /\ InsertCalendarEvent(u, a, x, s, e)
    \/ \E ok \in BOOLEAN, fetched \in SUBSET ExternalEventIDs :
          /\ eventCall = NoCall
          /\ EventsList("u1", "a1", ok, fetched)

SpecEvents == Init /\ [][NextEvents]_vars

(***************************************************************************)
(* Tokens and cached repositories of two users, then one delete request    *)
(* with a malformed, unknown, foreign or own account ID.                   *)
(***************************************************************************)
LinkedServices ==
    {[service_id |-> ServiceGithub, is_unlinkable |-> TRUE],
     [service_id |-> ServiceLinear, is_unlinkable |-> TRUE],
     [service_id |-> ServiceGoogle, is_unlinkable |-> FALSE]}

PathAccountIDs ==
    {[wellformed |-> w, id |-> i] : w \in BOOLEAN, i \in 1..MaxLinkedDocs + 1}

NextLinked ==
    \/ \E u \in UserIDs, a \in AccountIDs, s \in LinkedServices :
          /\ unlinkCall = NoCall
          /\ InsertExternalToken(u, a, s.service_id, s.is_unlinkable)
    \/ \E u \in UserIDs, a \in AccountIDs \cup {NoAccountID} :
          /\ unlinkCall = NoCall
          /\ InsertRepository(u, a)
    \/ \E u \in UserIDs, p \in PathAccountIDs :
          /\ unlinkCall = NoCall
          /\ DeleteLinkedAccount(u, p)

SpecLinked == Init /\ [][NextLinked]_vars

(***************************************************************************)
(* One invocation of GetPullRequests over cached pull requests, with every *)
(* outcome of the token lookup, of GitHub and of the database, and every   *)
(* scheduling of the goroutines.                                           *)
(***************************************************************************)
RepositoryLists == {<<>>, <<"r1">>, <<"r1", "r2">>, <<"r2", "r1">>}
PullRequestLists ==
    [r \in RepositoryIDs |->
        IF r = "r1" THEN {<<"p1", "p2">>, <<"p2", "p1">>} ELSE {<<>>, <<"p3">>}]

PullRequestsStep ==
    \/ \E p \in PullRequestIDs, c \in BOOLEAN : InsertPullRequest(p, c)
    \/ \E t \in BOOLEAN : GetPullRequestsStart(t)
    \/ \E g \in Starters, u \in OverrideURLs, ok \in BOOLEAN, rs \in RepositoryLists :
          /\ g # "getGithubRepositories" => rs = <<>>
          /\ StarterRun(g, u, ok, rs)
    \/ \E g \in Starters : ReceiveStarter(g)
    \/ \E r \in RepositoryIDs, u \in OverrideURLs, o \in ProcessRepositoryOutcomes :
          \E f \in PullRequestLists[r] : ProcessRepositoryRun(r, u, o, f)
    \/ \E r \in RepositoryIDs : ProcessRepositoryLoop(r)
    \/ ReceiveRepository
    \/ \E p \in PullRequestIDs, h \in ModifiedResponses, u \in OverrideURLs, ok \in BOOLEAN :
          getPullRequestInfo(p, h, u, ok)
    \/ \E ok \in BOOLEAN : ReceivePullRequest(ok)
    \/ SendPullRequestResult

NextPullRequests == ~prPanicked /\ PullRequestsStep

SpecPullRequests == Init /\ [][NextPullRequests]_vars

(***************************************************************************)
(* The same invocation under the Go scheduler: a goroutine that can take   *)
(* its next step, alone or together with the goroutine at the other end of *)
(* a channel, eventually takes it.                                         *)
(***************************************************************************)
PullRequestsFairness ==
    /\ \A g \in Starters :
          /\ WF_vars(~prPanicked /\ \E u \in OverrideURLs, ok \in BOOLEAN, rs \in RepositoryLists :
                                       StarterRun(g, u, ok, rs))
          /\ WF_vars(~prPanicked /\ ReceiveStarter(g))
    /\ \A r \in RepositoryIDs :
          /\ WF_vars(~prPanicked /\ \E u \in OverrideURLs, o \in ProcessRepositoryOutcomes :
                                       \E f \in PullRequestLists[r] : ProcessRepositoryRun(r, u, o, f))
          /\ WF_vars(~prPanicked /\ ProcessRepositoryLoop(r))
    /\ WF_vars(~prPanicked /\ ReceiveRepository)
    /\ \A p \in PullRequestIDs :
          WF_vars(~prPanicked /\ \E h \in ModifiedResponses, u \in OverrideURLs, ok \in BOOLEAN :
                                    getPullRequestInfo(p, h, u, ok))
    /\ WF_vars(~prPanicked /\ \E ok \in BOOLEAN : ReceivePullRequest(ok))
    /\ WF_vars(~prPanicked /\ SendPullRequestResult)

SpecPullRequestsFair == SpecPullRequests /\ PullRequestsFairness

(***************************************************************************)
(* A dense list of one user, then two concurrent calls with any item and   *)
(* any target position.                                                    *)
(***************************************************************************)
NextList ==
    \/ InsertListItem
    \/ \E c \in Callers, i \in 1..MaxListItems, k \in 1..MaxListItems + 1 :
          /\ i <= Len(listItems)
          /\ k <= Len(listItems) + 1
          /\ AdjustShift(c, i, k)
    \/ \E c \in Callers : AdjustFind(c)
    \/ \E c \in Callers : AdjustLoop(c)

SpecList == Init /\ [][NextList]_vars

(***************************************************************************)
(* getPullRequestRequiredAction on every GithubPRData                      *)
(***************************************************************************)
GithubPRData ==
    [RequestedReviewers : 0..MaxRequestedReviewers, IsMergeable : BOOLEAN,
     IsApproved : BOOLEAN, HaveRequestedChanges : BOOLEAN, ChecksDidFail : BOOLEAN,
     ChecksDidFinish : BOOLEAN, IsOwnedByUser : BOOLEAN, UserIsReviewer : BOOLEAN]

NextAction == \E data \in GithubPRData : RequiredAction(data)

SpecAction == Init /\ [][NextAction]_vars

(***************************************************************************)
(* reviewersHaveRequestedChanges on every list of up to MaxReviews reviews *)
(* of two reviewers                                                        *)
(***************************************************************************)
ReviewStates == {StateApproved, StateChangesRequested, StateCommented, StateDismissed}
PullRequestReviews == [login : ReviewLogins, state : ReviewStates]
ReviewLists == UNION {[1..n -> PullRequestReviews] : n \in 0..MaxReviews}

NextReview == \E reviews \in ReviewLists : reviewCall = NoCall /\ HaveRequestedChanges(reviews)

SpecReview == Init /\ [][NextReview]_vars

NextModify ==
    \/ \E doc \in TaskDocProfiles(Len(taskCollection) + 1) : InsertTaskDoc(doc)
    \/ /\ modifyCall = NoCall
       /\ \E taskID \in 1..MaxModifyTasks, userID \in UserIDs, params \in ModifyParams :
             \E env \in ModifyEnvs(params) : APITaskModify(taskID, userID, params, env)
SpecModify == Init /\ [][NextModify]_vars

NextRoundTrip ==
    \/ \E doc \in TaskDocProfiles(Len(taskCollection) + 1) : InsertStatusTask(doc)
    \/ \E taskID \in 1..MaxStatusTasks, updateFields \in StatusUpdates, dbOK \in BOOLEAN :
          UpdateTask(taskID, updateFields, dbOK)
SpecRoundTrip == Init /\ [][NextRoundTrip]_vars

NextComment ==
    \/ \E userID \in UserIDs, count \in 0..MaxComments : InsertCommentedTask(userID, count)
    \/ \E r \in CommentRequests, userID \in UserIDs, bodyEmpty \in BOOLEAN :
          CommentRead(r, userID, bodyEmpty)
    \/ \E r \in CommentRequests, addOK \in BOOLEAN, dbOK \in BOOLEAN :
          CommentWrite(r, addOK, dbOK)
SpecComment == Init /\ [][NextComment]_vars

(* C1: after an AdjustOrderingIDsForCollection call that returned without  *)
(* error, the id_ordering values of that user's documents are exactly      *)
(* 1..n, each used once, whatever they were before the call.               *)
AdjustLeavesDenseOrdering ==
    (adjCall.op = "adjust" /\ ~adjCall.err) => IsDense(items, adjCall.user_id)

(* a successful call on a list of three that had gaps or duplicates before *)
AdjustLeavesDenseOrderingWitness ==
    /\ adjCall.op = "adjust"
    /\ ~adjCall.err
    /\ ~adjCall.wasDense
    /\ adjCall.size = 3

(* the other tasks of the list a reorder call addresses: same user, not    *)
(* deleted, and either same parent (subtask) or in the target section and  *)
(* not completed (top-level task)                                          *)
ReorderListOthers(call) ==
    LET pre == call.pre
        moved == pre[call.task_id]
        section == IF call.id_task_section # NilPtr
                   THEN ValueOf(call.id_task_section)
                   ELSE moved.id_task_section
    IN  {t \in TaskIDs(pre) \ {call.task_id} :
            /\ pre[t].user_id = call.user_id
            /\ pre[t].is_deleted # {TRUE}
            /\ IF moved.parent_task_id = Nil
               THEN pre[t].id_task_section = section /\ pre[t].is_completed # {TRUE}
               ELSE pre[t].parent_task_id = moved.parent_task_id}

ReorderWithOrdering(call) ==
    /\ call.op = "reorder"
    /\ call.status = 200
    /\ call.id_ordering # NilPtr

(* C2: ReOrderTask with id_ordering k sets the moved task's id_ordering to *)
(* k and adds 1 to the id_ordering of every other task of its list with    *)
(* id_ordering >= k; before the renumbering no other task of the list      *)
(* holds k, every other task is untouched, and the relative order of the   *)
(* other tasks of the list is unchanged.                                   *)
ReorderShiftsFollowers ==
    ReorderWithOrdering(reorderCall) =>
        LET pre == reorderCall.pre
            mid == reorderCall.mid
            m == reorderCall.task_id
            k == ValueOf(reorderCall.id_ordering)
            others == ReorderListOthers(reorderCall)
        IN  /\ mid[m].id_ordering = k
            /\ \A t \in TaskIDs(pre) \ {m} :
                 /\ mid[t].id_ordering =
                       IF t \in others /\ pre[t].id_ordering >= k
                       THEN pre[t].id_ordering + 1
                       ELSE pre[t].id_ordering
                 /\ [mid[t] EXCEPT !.id_ordering = 0] = [pre[t] EXCEPT !.id_ordering = 0]
            /\ \A t \in others : mid[t].id_ordering # k
            /\ \A a, b \in others :
                 (pre[a].id_ordering < pre[b].id_ordering)
                     <=> (mid[a].id_ordering < mid[b].id_ordering)

(* a top-level task moved to position k with one list neighbour below k,   *)
(* one at k, and the neighbour at k moved back                             *)
ReorderShiftsFollowersWitness ==
    /\ ReorderWithOrdering(reorderCall)
    /\ reorderCall.pre[reorderCall.task_id].parent_task_id = Nil
    /\ \E a, b \in ReorderListOthers(reorderCall) :
          /\ reorderCall.pre[a].id_ordering < ValueOf(reorderCall.id_ordering)
          /\ reorderCall.pre[b].id_ordering = ValueOf(reorderCall.id_ordering)
          /\ reorderCall.mid[b].id_ordering = reorderCall.pre[b].id_ordering + 1

DocKey(doc) == <<doc.user_id, doc.id_external, doc.source_id>>

AtMostOneDocPerKey(ds) ==
    \A i, j \in 1..Len(ds) : i # j => DocKey(ds[i]) # DocKey(ds[j])

(* C3: GetOrCreateWithCollection is idempotent on (user_id, id_external,   *)
(* source_id): a call for a key that already has a document inserts        *)
(* nothing, leaves the document unchanged and returns it; after any        *)
(* sequence of calls there is at most one document per key.                *)
GetOrCreateIdempotentOnKey ==
    /\ (upsertCall.op = "getOrCreate"
            /\ MatchingIDs(upsertCall.pre, upsertCall.query) # {}) =>
          /\ docs = upsertCall.pre
          /\ upsertCall.returned \in MatchingIDs(upsertCall.pre, upsertCall.query)
    /\ AtMostOneDocPerKey(docs)

(* C4: FindOneAndUpdateWithCollection: an existing document of the key     *)
(* gets the fields, keeps its _id and no document is added; when none      *)
(* exists exactly one is created; documents of another user, source or     *)
(* external id are never modified.                                         *)
FindOneAndUpdateReconcilesOnKey ==
    upsertCall.op = "findOneAndUpdate" =>
        LET pre == upsertCall.pre
            q == upsertCall.query
            m == MatchingIDs(pre, q)
        IN  /\ m # {} =>
                 /\ Len(docs) = Len(pre)
                 /\ upsertCall.returned \in m
                 /\ \A f \in DOMAIN upsertCall.fields :
                       docs[upsertCall.returned][f] = upsertCall.fields[f]
            /\ m = {} => Len(docs) = Len(pre) + 1
            /\ \A i \in 1..Len(pre) :
                 (\/ pre[i].user_id # q.user_id
                  \/ pre[i].source_id # q.source_id
                  \/ pre[i].id_external # q.id_external) => docs[i] = pre[i]

(* the domain of a well-formed address: what follows its "@" *)
HasEmailDomain(userID) ==
    /\ userID \in DOMAIN Users
    /\ Len(Users[userID]) >= 2
    /\ Users[userID][Len(Users[userID])] # ""

SameEmailDomain(userID, ownerID) ==
    /\ HasEmailDomain(userID)
    /\ HasEmailDomain(ownerID)
    /\ Users[userID][Len(Users[userID])] = Users[ownerID][Len(Users[ownerID])]

SharedTaskLookup == shareResp.op = "GetSharedTask" /\ shareResp.id \in TaskIDs(tasks)

DomainTaskOnlyToSameDomain ==
    (SharedTaskLookup /\ shareResp.result.ok
        /\ tasks[shareResp.id].shared_access = Ptr(SharedAccessDomain)) =>
           /\ shareResp.user_id # NilPtr
           /\ SameEmailDomain(ValueOf(shareResp.user_id), tasks[shareResp.id].user_id)

SharedTaskReturned(resp, t) ==
    resp.op = "GetSharedTask" /\ resp.id = t /\ resp.result.ok

(* C6: GetSharedTask returns no task that is expired, deleted or without a *)
(* shared access, to any requester; an expired task whose shared_until is  *)
(* not modified stays expired and is not returned.                         *)
ExpiredSharedTaskStaysHidden ==
    [][/\ shareResp'.op = "GetSharedTask" /\ shareResp'.result.ok =>
             /\ shareResp'.id \in TaskIDs(tasks')
             /\ shareResp'.result.value = shareResp'.id
             /\ tasks'[shareResp'.id].shared_until >= now'
             /\ tasks'[shareResp'.id].is_deleted # Ptr(TRUE)
             /\ tasks'[shareResp'.id].shared_access # NilPtr
       /\ \A t \in TaskIDs(tasks) :
             (tasks[t].shared_until < now
                 /\ tasks'[t].shared_until = tasks[t].shared_until) =>
                    /\ tasks'[t].shared_until < now'
                    /\ ~SharedTaskReturned(shareResp', t)]_vars

ExpiredSharedTaskStaysHiddenWitness ==
    /\ SharedTaskLookup
    /\ shareResp.user_id = Ptr(tasks[shareResp.id].user_id)
    /\ tasks[shareResp.id].shared_access = Ptr(SharedAccessPublic)
    /\ tasks[shareResp.id].is_deleted # Ptr(TRUE)
    /\ tasks[shareResp.id].shared_until = 1
    /\ now > 1
    /\ ~shareResp.result.ok

SharedNoteLookup(op) == shareResp.op = op /\ shareResp.id \in NoteIDs(notes)

SharedNoteWithoutAuthAccess ==
    (shareResp.op = "GetSharedNote" /\ shareResp.result.ok) =>
        /\ shareResp.id \in NoteIDs(notes)
        /\ shareResp.result.value = shareResp.id
        /\ notes[shareResp.id].is_deleted # Ptr(TRUE)
        /\ notes[shareResp.id].shared_until >= now
        /\ notes[shareResp.id].shared_access \in {NilPtr, Ptr(SharedAccessPublic)}

SharedNoteWithoutAuthAccessWitness ==
    /\ SharedNoteLookup("GetSharedNote")
    /\ notes[shareResp.id].shared_access = Ptr(SharedAccessPublic)
    /\ notes[shareResp.id].shared_until = now
    /\ shareResp.result.ok

(* C9: a state token is single-use: DeleteStateToken succeeds at most once *)
(* per token; it fails with 'invalid state token' for a token that was     *)
(* never created or is already deleted; with a user ID it succeeds only    *)
(* for a token created for that user; of two callbacks presenting the same *)
(* token at most one succeeds.                                             *)
StateTokenSingleUse ==
    [][/\ \A t \in DOMAIN deletions : deletions'[t] <= 1
       /\ \A c \in Callbacks :
             (callbacks[c].pc = "called" /\ callbacks'[c].pc = "done") =>
                /\ (~\E token \in stateTokens : token.id = callbacks[c].token) =>
                       callbacks'[c].err = "invalid state token"
                /\ callbacks'[c].err = "" =>
                       /\ callbacks[c].token \in 1..tokensCreated
                       /\ ~\E token \in stateTokens' : token.id = callbacks[c].token
                       /\ callbacks[c].user_id # NilPtr =>
                             \E token \in stateTokens :
                                /\ token.id = callbacks[c].token
                                /\ token.user_id = ValueOf(callbacks[c].user_id)
       /\ \A c, d \in Callbacks :
             (c # d /\ callbacks'[c].pc = "done" /\ callbacks'[d].pc = "done"
                /\ callbacks'[c].token = callbacks'[d].token) =>
                   (callbacks'[c].err # "" \/ callbacks'[d].err # "")]_vars

StateTokenSingleUseWitness ==
    /\ callbacks["c1"].pc = "done"
    /\ callbacks["c2"].pc = "done"
    /\ callbacks["c1"].token = callbacks["c2"].token
    /\ callbacks["c1"].user_id = Ptr("u1")
    /\ callbacks["c1"].err = ""
    /\ callbacks["c2"].err = "invalid state token"

SettingsOf(ss, userID, fieldKey) ==
    {i \in 1..Len(ss) : ss[i].user_id = userID /\ ss[i].field_key = fieldKey}

(* C10: after any sequence of UpdateUserSetting calls there is at most one *)
(* setting per (user_id, field_key), it holds the value of the last call   *)
(* for that pair, and the settings of other users or keys are unchanged.   *)
UserSettingUpsert ==
    /\ \A u \in UserIDs, k \in FieldKeys : Cardinality(SettingsOf(settings, u, k)) <= 1
    /\ settingCall.op = "UpdateUserSetting" =>
          /\ \E i \in SettingsOf(settings, settingCall.user_id, settingCall.field_key) :
                settings[i].field_value = settingCall.field_value
          /\ \A i \in 1..Len(settingCall.pre) :
                (settingCall.pre[i].user_id # settingCall.user_id
                    \/ settingCall.pre[i].field_key # settingCall.field_key) =>
                       settings[i] = settingCall.pre[i]
          /\ \A i \in 1..Len(settings) :
                (settings[i].user_id # settingCall.user_id
                    \/ settings[i].field_key # settingCall.field_key) =>
                       (i <= Len(settingCall.pre) /\ settings[i] = settingCall.pre[i])

UserSettingUpsertWitness ==
    /\ settingCall.op = "UpdateUserSetting"
    /\ Len(settingCall.pre) >= 2
    /\ \E i \in SettingsOf(settingCall.pre, settingCall.user_id, settingCall.field_key) :
          settingCall.pre[i].field_value # settingCall.field_value

(* C11: a request to an authenticated endpoint is accepted iff its header  *)
(* is 'Bearer <token>' with a currently stored token, else answered 401;   *)
(* logout deletes the presented token, and a token that was logged out is  *)
(* never accepted again.                                                   *)
BearerTokenAuthentication ==
    [][/\ authResp'.op \in {"ping", "logout"} =>
             /\ authResp'.status \in {200, 401}
             /\ authResp'.status = 200 <=>
                   /\ authResp'.header.prefix = BearerPrefix
                   /\ authResp'.header.token \in StoredTokens(internalTokens)
       /\ (authResp'.op = "logout" /\ authResp'.status = 200) =>
             authResp'.header.token \notin StoredTokens(internalTokens')
       /\ \A t \in loggedOut' : t \notin StoredTokens(internalTokens')
       /\ (authResp'.op = "ping" /\ authResp'.status = 200) =>
             authResp'.header.token \notin loggedOut']_vars

BearerTokenAuthenticationWitness ==
    /\ authResp.op = "ping"
    /\ authResp.status = 401
    /\ authResp.header.prefix = BearerPrefix
    /\ authResp.header.token \in loggedOut
    /\ internalTokens # {}

UnlinkRemovesOnlyOwnAccount ==
    unlinkCall.op = "DeleteLinkedAccount" =>
        LET own == {t \in unlinkCall.preTokens : /\ unlinkCall.account_id.wellformed
                                                 /\ t.id = unlinkCall.account_id.id
                                                 /\ t.user_id = unlinkCall.user_id}
        IN  /\ own = {} => unlinkCall.status = 404
            /\ (\E t \in own : ~t.is_unlinkable) => unlinkCall.status = 400
            /\ (\E t \in own : t.is_unlinkable) => unlinkCall.status = 200
            /\ unlinkCall.status # 200 =>
                  /\ externalTokens = unlinkCall.preTokens
                  /\ repositories = unlinkCall.preRepositories
            /\ unlinkCall.status = 200 =>
                  /\ externalTokens = unlinkCall.preTokens \ own
                  /\ \A t \in own :
                        /\ t.service_id = ServiceGithub =>
                              \A r \in unlinkCall.preRepositories :
                                 r \notin repositories <=>
                                    /\ r.user_id = unlinkCall.user_id
                                    /\ r.account_id \in {t.account_id, NoAccountID}
                        /\ t.service_id # ServiceGithub =>
                              repositories = unlinkCall.preRepositories

UnlinkRemovesOnlyOwnAccountWitness ==
    /\ unlinkCall.op = "DeleteLinkedAccount"
    /\ unlinkCall.status = 200
    /\ Cardinality(unlinkCall.preRepositories) = 2
    /\ Cardinality(repositories) = 1
    /\ \E r \in repositories : r.user_id # unlinkCall.user_id /\ r.account_id = NoAccountID

(* what GetPullRequests and its goroutines have reached *)
InfoReceived(p) == prInfoProcs[p].pc = "done"
InfoDelivered(p) == prInfoProcs[p].pc \in {"send", "done"}
InResult(p) == \E i \in 1..Len(prMain.pull_requests) : prMain.pull_requests[i] = p
NotModified(p) == prCached[p].exists /\ prInfoProcs[p].check = "304"
(* GetPullRequests ran to its last statement *)
RanToEnd ==
    /\ prMain.pc = "done"
    /\ \A g \in Starters : prStarters[g].pc = "done" /\ prStarters[g].ok
    /\ \A p \in prUpserted : InResult(p)

(* C14: a pull request with a cached record whose modified-check answers   *)
(* 304 costs no further GitHub call, its cached record is delivered, and   *)
(* GetPullRequests writes it only if the cached record is completed, then  *)
(* with is_completed false; a pull request without a cached record, or     *)
(* whose check fails or answers something else, is fetched in full and,    *)
(* once fetched, upserted.                                                 *)
ConditionalFetchPerPullRequest ==
    \A p \in PullRequestIDs :
       /\ InfoDelivered(p) /\ NotModified(p) =>
             /\ ~prInfoProcs[p].fetched
             /\ prInfoProcs[p].value = CachedPullRequest(prCached[p])
       /\ InfoReceived(p) /\ NotModified(p) =>
             /\ p \in prUpserted <=> prCached[p].is_completed
             /\ p \notin prUpserted => prDocs[p] = prCached[p]
             /\ p \in prUpserted /\ InResult(p) =>
                   prDocs[p].exists /\ ~prDocs[p].is_completed
       /\ InfoDelivered(p) /\ ~NotModified(p) => prInfoProcs[p].fetched
       /\ InfoReceived(p) /\ ~NotModified(p) /\ prInfoProcs[p].value.kind = "new" =>
             /\ p \in prUpserted
             /\ InResult(p) => prDocs[p].exists /\ ~prDocs[p].is_completed

ConditionalFetchPerPullRequestWitness ==
    /\ RanToEnd
    /\ \E p \in PullRequestIDs :
          InfoReceived(p) /\ NotModified(p) /\ prCached[p].is_completed /\ p \in prUpserted
    /\ \E p \in PullRequestIDs :
          InfoReceived(p) /\ NotModified(p) /\ ~prCached[p].is_completed /\ InResult(p)
    /\ \E p \in PullRequestIDs :
          InfoReceived(p) /\ prInfoProcs[p].check = "error" /\ InResult(p)

(* C15: a pull request whose detail fetch fails is left out of the result, *)
(* its cached record is not touched, and GetPullRequests still returns the *)
(* other pull requests with a nil error.                                   *)
FailedPullRequestIsOmitted ==
    /\ \A p \in PullRequestIDs :
          InfoReceived(p) /\ prInfoProcs[p].value.kind = "nil" =>
             /\ p \notin prUpserted
             /\ prDocs[p] = prCached[p]
             /\ ~InResult(p)
    /\ RanToEnd =>
          /\ prResults[Len(prResults)].error = ""
          /\ \A p \in PullRequestIDs :
                prInfoProcs[p].pc # "idle" =>
                   ((\E i \in 1..Len(prResults[Len(prResults)].pull_requests) :
                        prResults[Len(prResults)].pull_requests[i] = p)
                    <=> prInfoProcs[p].value.kind # "nil")

FailedPullRequestIsOmittedWitness ==
    /\ RanToEnd
    /\ Len(prResults) = 1
    /\ Len(prResults[1].pull_requests) = 2
    /\ \E p \in PullRequestIDs :
          prInfoProcs[p].value.kind = "nil" /\ prCached[p].exists /\ prCached[p].is_completed

(* C17: every invocation of GetPullRequests sends exactly one              *)
(* PullRequestResult on its result channel: never more than one, and one   *)
(* once it has returned.                                                   *)
ExactlyOnePullRequestResult ==
    /\ Len(prResults) <= 1
    /\ prMain.pc = "done" => Len(prResults) = 1

RECURSIVE FetchedInOrder(_)
(* the fetched pull request lists of the repositories, one after another *)
FetchedInOrder(fetchedRepositories) ==
    IF fetchedRepositories = <<>> THEN <<>>
    ELSE prRepoProcs[Head(fetchedRepositories)].fetched
            \o FetchedInOrder(Tail(fetchedRepositories))

(* C19: the pull requests of the result follow the order of the fetched    *)
(* repository list and, within a repository, the order of its fetched pull *)
(* request list, whatever the scheduling of the goroutines.                *)
ResultFollowsFetchedOrder ==
    RanToEnd =>
        LET IsDelivered(p) == prInfoProcs[p].value.kind # "nil"
        IN  prResults[Len(prResults)].pull_requests =
               SelectSeq(FetchedInOrder(prMain.repositories), IsDelivered)

ResultFollowsFetchedOrderWitness ==
    /\ RanToEnd
    /\ prMain.repositories = <<"r2", "r1">>
    /\ prResults[Len(prResults)].pull_requests = <<"p3", "p2", "p1">>
    /\ prInfoProcs["p1"].request_time < prInfoProcs["p3"].request_time

(* C20: pullRequestChannels and requestTimes have equal length and the     *)
(* same pull request at every position, in processRepository and in        *)
(* GetPullRequests, also when a repository failed; the last_fetched that   *)
(* is stored is the time taken before the pull request's own               *)
(* getPullRequestInfo was started.                                         *)
RequestTimesAligned ==
    /\ Len(prMain.channels) = Len(prMain.times)
    /\ \A i \in 1..Len(prMain.channels) :
          prMain.times[i] = prInfoProcs[prMain.channels[i]].request_time
    /\ \A r \in RepositoryIDs :
          /\ Len(prRepoProcs[r].channels) = Len(prRepoProcs[r].times)
          /\ \A i \in 1..Len(prRepoProcs[r].channels) :
                prRepoProcs[r].times[i] = prInfoProcs[prRepoProcs[r].channels[i]].request_time
    /\ \A p \in PullRequestIDs :
          /\ prInfoProcs[p].pc # "idle" => prInfoProcs[p].request_time < prClock
          /\ p \in prUpserted /\ InResult(p) =>
                prDocs[p].last_fetched = prInfoProcs[p].request_time

RequestTimesAlignedWitness ==
    /\ RanToEnd
    /\ \E r \in RepositoryIDs : prRepoProcs[r].error
    /\ Len(prMain.channels) = 2
    /\ \A i \in 1..Len(prMain.channels) :
          prMain.channels[i] \in prUpserted /\ InResult(prMain.channels[i])
    /\ prMain.times[1] # prMain.times[2]

(* a goroutine GetPullRequests started has not returned; a panic ends *)
(* the process and every goroutine with it                           *)
GoroutinesRunning ==
    /\ ~prPanicked
    /\ \/ \E g \in Starters : prStarters[g].pc \in {"run", "send"}
       \/ \E r \in RepositoryIDs : prRepoProcs[r].pc \in {"run", "loop", "send"}
       \/ \E p \in PullRequestIDs : prInfoProcs[p].pc \in {"run", "send"}

(* C18: every goroutine started in GetPullRequests eventually completes    *)
(* its sends and terminates: whenever some of them are running, a time     *)
(* comes when none is.                                                     *)
EveryGoroutineTerminates == GoroutinesRunning ~> ~GoroutinesRunning

(* C16: when two AdjustOrderingIDsForCollection calls on one collection    *)
(* interleave statement by statement, then once both have returned the     *)
(* id_ordering values of the list are pairwise distinct and form 1..n.     *)
ConcurrentReordersLeaveDenseOrdering ==
    (\A c \in Callers : listCalls[c].pc = "done") => IsDense(listItems, ListUser)

(* the actions that apply to a pull request the user owns *)
ApplicableActions(data) ==
    {a \in DOMAIN ActionOrdering :
        \/ a = ActionAddReviewers /\ data.RequestedReviewers = 0
        \/ a = ActionFixFailedCI /\ data.ChecksDidFail
        \/ a = ActionAddressComments /\ data.HaveRequestedChanges
        \/ a = ActionFixMergeConflicts /\ ~data.IsMergeable
        \/ a = ActionWaitingOnCI /\ ~data.ChecksDidFinish
        \/ a = ActionMergePR /\ data.IsApproved
        \/ a = ActionWaitingOnReview}

(* C21: getPullRequestRequiredAction returns a non-empty key of            *)
(* ActionOrdering; for a pull request the user owns it is the applicable   *)
(* action with the smallest ActionOrdering value (Add Reviewers, Fix       *)
(* Failed CI, Address Comments, Fix Merge Conflicts, Waiting on CI, Merge  *)
(* PR, else Waiting on Review); for another pull request it is Review PR   *)
(* if the user must review and Waiting on Author otherwise.                *)
RequiredActionIsFirstApplicable ==
    actionCall.op = "getPullRequestRequiredAction" =>
        LET data == actionCall.data
            action == actionCall.action
        IN  /\ action # ""
            /\ action \in DOMAIN ActionOrdering
            /\ data.IsOwnedByUser =>
                  /\ action \in ApplicableActions(data)
                  /\ \A a \in ApplicableActions(data) :
                        ActionOrdering[action] <= ActionOrdering[a]
            /\ ~data.IsOwnedByUser =>
                  action = IF data.UserIsReviewer THEN ActionReviewPR
                           ELSE ActionWaitingOnAuthor

RequiredActionIsFirstApplicableWitness ==
    /\ actionCall.op = "getPullRequestRequiredAction"
    /\ actionCall.data.IsOwnedByUser
    /\ actionCall.data.IsApproved
    /\ ~actionCall.data.ChecksDidFinish
    /\ actionCall.action = ActionWaitingOnCI

(* C22: reviewersHaveRequestedChanges is true exactly when, for some       *)
(* reviewer, the last review by that reviewer whose state is not COMMENTED *)
(* has state CHANGES_REQUESTED: a later COMMENTED review does not clear    *)
(* the request, a later APPROVED review by the same reviewer does.         *)
RequestedChangesByLastReview ==
    reviewCall.op = "reviewersHaveRequestedChanges" =>
        LET reviews == reviewCall.reviews
        IN  reviewCall.result <=>
               \E i \in 1..Len(reviews) :
                  /\ reviews[i].state = StateChangesRequested
                  /\ \A j \in i + 1..Len(reviews) :
                        reviews[j].login = reviews[i].login =>
                           reviews[j].state = StateCommented

RequestedChangesByLastReviewWitness ==
    /\ reviewCall.op = "reviewersHaveRequestedChanges"
    /\ reviewCall.result
    /\ Len(reviewCall.reviews) = 3
    /\ reviewCall.reviews[1] = [login |-> "alice", state |-> StateChangesRequested]
    /\ reviewCall.reviews[2] = [login |-> "alice", state |-> StateCommented]
    /\ reviewCall.reviews[3] = [login |-> "bob", state |-> StateApproved]

(* a response with this status code was written for the last request *)
Answered(code) == \E i \in DOMAIN responses : responses[i] = code

(* C23: a TaskModify request answered with 400 or 404 leaves the task      *)
(* collection as it found it: no field of the target task and no           *)
(* id_ordering of another task is modified.                                *)
RejectedModifyChangesNothing ==
    (modifyCall # NoCall /\ (Answered(400) \/ Answered(404)))
        => taskCollection = modifyCall.pre

(* the task the last TaskModify request fetched, and the same document now *)
ModifyFound == modifyCall # NoCall /\ MatchedCount(modifyCall.pre, modifyCall.task_id, modifyCall.user_id) = 1
TaskBefore == modifyCall.pre[modifyCall.task_id]
TaskAfter == taskCollection[modifyCall.task_id]

(* the task must not be marked done: its source is not completable, or it  *)
(* is deleted and the request does not set is_deleted to false             *)
MustNotBeMarkedDone ==
    \/ ~IsCompletable(TaskBefore.source_id)
    \/ TaskBefore.is_deleted = Ptr(TRUE) /\ modifyCall.params.IsDeleted # Ptr(FALSE)

(* C24: no TaskModify request turns is_completed to true on a task that    *)
(* must not be marked done, whether it sets is_completed directly or only  *)
(* names a status; a request that sets is_completed to true on such a task *)
(* is answered 400.                                                        *)
NeverMarkedDoneWhenForbidden ==
    (ModifyFound /\ MustNotBeMarkedDone)
        => /\ TaskAfter.is_completed = Ptr(TRUE) => TaskBefore.is_completed = Ptr(TRUE)
           /\ modifyCall.params.IsCompleted = Ptr(TRUE) => responses = <<400>>

(* C25: after a successful TaskModify that names a status of the task's   *)
(* all_statuses, the stored status is the requested status and, for a task *)
(* whose is_completed was set, the stored is_completed is the status's     *)
(* IsCompletedStatus flag; a status outside all_statuses is answered 400   *)
(* and changes nothing.                                                    *)
RequestedStatusIsStored ==
    (ModifyFound /\ modifyCall.params.Status # NilPtr)
        => IF StatusToUpdateTo(TaskBefore, ValueOf(modifyCall.params.Status)) = NilPtr
           THEN responses = <<400>> /\ taskCollection = modifyCall.pre
           ELSE responses = <<200>>
                    => /\ TaskAfter.status = modifyCall.params.Status
                       /\ TaskBefore.is_completed # NilPtr
                            => TaskAfter.is_completed =
                                 Ptr(ValueOf(modifyCall.params.Status).IsCompletedStatus)

(* the last call un-completed the task that the call before it completed *)
CompletedThenUncompleted ==
    /\ updateCall # NoCall
    /\ updateCall.previous.task_id = updateCall.last.task_id
    /\ updateCall.previous.is_completed = Ptr(TRUE) /\ ~updateCall.previous.err
    /\ updateCall.last.is_completed = Ptr(FALSE) /\ ~updateCall.last.err

(* C26: completing a task and then un-completing it, each through          *)
(* UpdateTaskInDBWithError with the task as stored, puts the status back   *)
(* to the one the task had before it was completed.                        *)
CompletionRoundTrip ==
    CompletedThenUncompleted
        => taskCollection[updateCall.last.task_id].status = updateCall.previous.before

(* both TaskAddComment requests have been answered with 200 and nothing else *)
BothCommentsAnswered200 == \A r \in CommentRequests : commentProcs[r].pc = "done" /\ commentProcs[r].codes = <<200>>

(* C27: once two TaskAddComment requests on the same task have both been   *)
(* answered 200, in any interleaving, the stored comment list is the       *)
(* previous comments in their order followed by both new comments.         *)
BothCommentsStored ==
    BothCommentsAnswered200
        => \/ CommentsOf(taskCollection[1]) = commentsInserted \o <<"n1", "n2">>
           \/ CommentsOf(taskCollection[1]) = commentsInserted \o <<"n2", "n1">>

(* C28: TaskModify writes exactly one response per request; when the      *)
(* update of the task's fields fails it answers 500, writes no second      *)
(* response, does not answer 200 and does not go on to reorder.            *)
OneResponseAndNo200AfterFailedUpdate ==
    modifyCall # NoCall
        => /\ Len(responses) = 1
           /\ ~modifyCall.env.dbOK => (~Answered(200) /\ ~modifyCall.reordered)

(* C29: ReOrderTask without an id_ordering changes exactly one document:  *)
(* the moved task gets the requested id_task_section and has_been_reordered *)
(* = true, and no id_ordering changes; in every ReOrderTask call the tasks *)
(* of other users are left unchanged.                                      *)
SectionChangeTouchesOneTask ==
    reorderCall.op = "reorder"
        => /\ (reorderCall.status = 200 /\ reorderCall.id_ordering = NilPtr)
                => tasks = [reorderCall.pre EXCEPT ![reorderCall.task_id] =
                              [@ EXCEPT !.has_been_reordered = TRUE,
                                        !.id_task_section =
                                            IF reorderCall.id_task_section # NilPtr
                                            THEN ValueOf(reorderCall.id_task_section)
                                            ELSE @]]
           /\ \A t \in TaskIDs(reorderCall.pre) :
                 reorderCall.pre[t].user_id # reorderCall.user_id
                     => tasks[t] = reorderCall.pre[t]

(* a task moved without an id_ordering to another section that holds a     *)
(* task of the same user, while another user has a task too                *)
SectionChangeTouchesOneTaskWitness ==
    /\ reorderCall.op = "reorder"
    /\ reorderCall.status = 200
    /\ reorderCall.id_ordering = NilPtr
    /\ reorderCall.id_task_section = Ptr("s2")
    /\ reorderCall.pre[reorderCall.task_id].id_task_section = "s1"
    /\ tasks[reorderCall.task_id].id_task_section = "s2"
    /\ \E a, b \in TaskIDs(tasks) \ {reorderCall.task_id} :
          /\ tasks[a].user_id = reorderCall.user_id /\ tasks[a].id_task_section = "s2"
          /\ tasks[b].user_id # reorderCall.user_id

====
